---- MODULE Spec2Model ----
(***************************************************************************)
(* Model of the pro-forma computation engine (computation_engine.py).      *)
(*                                                                         *)
(* One invocation of compute_proforma is a chain of steps, one per         *)
(* numbered section of the function; pc is the position in that chain.     *)
(* Python floats are modelled as exact rationals <<num, den>> (den > 0,    *)
(* lowest terms); Python values are tagged records (None, number, list,    *)
(* string, dict, NaN).                                                     *)
(***************************************************************************)
EXTENDS Integers, Sequences, FiniteSets, TLC

(***************************************************************************)
(* Bounds of the explored inputs.                                          *)
(***************************************************************************)
MaxArea == 2
MaxPrice == 3
MaxFar == 2
\* numerators and denominators kept when a fraction has to be rounded
Precision == 30000

(***************************************************************************)
(* Rational arithmetic: exact while the fractions fit the integers, and     *)
(* rounded to the nearest fraction of limited size where they do not (as a  *)
(* float is rounded to its mantissa).                                       *)
(***************************************************************************)
Abs(x) == IF x < 0 THEN -x ELSE x

RECURSIVE GCD(_, _)
GCD(a, b) == IF b = 0 THEN a ELSE GCD(b, a % b)

Q(n, d) ==
    LET g == GCD(Abs(n), Abs(d))
        s == IF d < 0 THEN -1 ELSE 1
    IN  <<s * (n \div g), s * (d \div g)>>

I(n) == <<n, 1>>
Zero == I(0)
One == I(1)

\* a * b and a + b stay within the 32-bit integers
MulFits(a, b) == a = 0 \/ b = 0 \/ Abs(a) <= 2147483647 \div Abs(b)
AddFits(a, b) == Abs(a) <= 2147483647 - Abs(b)

\* continued-fraction convergents of n / d: the last one whose numerator and
\* denominator are both within Precision
RECURSIVE Convergent(_, _, _, _, _, _)
Convergent(n, d, p0, q0, p1, q1) ==
    LET a == n \div d
        fits == /\ p1 = 0 \/ a <= (Precision - p0) \div p1
                /\ q1 = 0 \/ a <= (Precision - q0) \div q1
        p2 == a * p1 + p0
        q2 == a * q1 + q0
    IN  IF ~fits THEN (IF q1 = 0 THEN <<n, d>> ELSE <<p1, q1>>)
        ELSE IF n % d = 0 THEN <<p2, q2>>
        ELSE Convergent(d, n % d, p1, q1, p2, q2)

\* x itself when it is small enough, else x rounded
Fit(x) ==
    IF Abs(x[1]) <= Precision /\ x[2] <= Precision THEN x
    ELSE LET c == Convergent(Abs(x[1]), x[2], 0, 1, 1, 0)
         IN  IF x[1] < 0 THEN <<-c[1], c[2]>> ELSE c

AddExact(x, y) ==
    LET g == GCD(x[2], y[2])
        l == (x[2] \div g) * y[2]
    IN  Q(x[1] * (l \div x[2]) + y[1] * (l \div y[2]), l)

AddIsExact(x, y) ==
    LET g == GCD(x[2], y[2])
    IN  /\ MulFits(x[2] \div g, y[2])
        /\ MulFits(x[1], y[2] \div g)
        /\ MulFits(y[1], x[2] \div g)
        /\ AddFits(x[1] * (y[2] \div g), y[1] * (x[2] \div g))

RAdd(x, y) ==
    IF AddIsExact(x, y) THEN AddExact(x, y) ELSE AddExact(Fit(x), Fit(y))

RNeg(x) == <<-x[1], x[2]>>
RSub(x, y) == RAdd(x, RNeg(y))

MulExact(x, y) ==
    LET g1 == GCD(Abs(x[1]), y[2])
        g2 == GCD(Abs(y[1]), x[2])
    IN  IF x[1] = 0 \/ y[1] = 0 THEN Zero
        ELSE <<(x[1] \div g1) * (y[1] \div g2), (x[2] \div g2) * (y[2] \div g1)>>

MulIsExact(x, y) ==
    LET g1 == GCD(Abs(x[1]), y[2])
        g2 == GCD(Abs(y[1]), x[2])
    IN  \/ x[1] = 0
        \/ y[1] = 0
        \/ /\ MulFits(x[1] \div g1, y[1] \div g2)
           /\ MulFits(x[2] \div g2, y[2] \div g1)

RMul(x, y) ==
    IF MulIsExact(x, y) THEN MulExact(x, y) ELSE MulExact(Fit(x), Fit(y))

RInv(x) == IF x[1] < 0 THEN <<-x[2], -x[1]>> ELSE <<x[2], x[1]>>
RDiv(x, y) == RMul(x, RInv(y))

RPos(x) == x[1] > 0
RNegative(x) == x[1] < 0
RIsZero(x) == x[1] = 0

\* int(x): truncation toward zero
Trunc(x) == IF x[1] >= 0 THEN x[1] \div x[2] ELSE -((-x[1]) \div x[2])

(***************************************************************************)
(* numpy arrays: sequences of rationals.                                   *)
(***************************************************************************)
RECURSIVE ASum(_)
ASum(a) == IF a = <<>> THEN Zero ELSE RAdd(a[1], ASum(Tail(a)))

AScale(c, a) == [i \in 1..Len(a) |-> RMul(c, a[i])]
APlus(a, b) == [i \in 1..Len(a) |-> RAdd(a[i], b[i])]
AMinus(a, b) == [i \in 1..Len(a) |-> RSub(a[i], b[i])]
ADivS(a, c) == [i \in 1..Len(a) |-> RDiv(a[i], c)]
AConst(c, n) == [i \in 1..n |-> c]
ACumsum(a) == [i \in 1..Len(a) |-> ASum(SubSeq(a, 1, i))]

(***************************************************************************)
(* Python values.                                                          *)
(***************************************************************************)
None == [t |-> "none"]
NaN == [t |-> "nan"]
Num(q) == [t |-> "num", q |-> q]
Lst(s) == [t |-> "list", v |-> s]
Str(s) == [t |-> "str", s |-> s]
Dict(f) == [t |-> "dict", f |-> f]
EmptyMap == [k \in {} |-> None]

IsNone(v) == v.t = "none"

\* bool(v): None, 0, "", [] and {} are false
Truthy(v) ==
    CASE v.t = "none" -> FALSE
      [] v.t = "num" -> v.q[1] # 0
      [] v.t = "str" -> v.s # ""
      [] v.t = "list" -> v.v # <<>>
      [] v.t = "dict" -> DOMAIN v.f # {}

\* the strings float() and int() parse, with their values (the numerals
\* among the explored strings)
FloatLiteral == [s \in {"2"} |-> <<2, 1>>]

\* the exception float(v) or int(v) raises, "" when it returns: a string
\* that is not a numeral gives ValueError, a list or a dict TypeError
FloatError(v) ==
    CASE v.t = "num" -> ""
      [] v.t = "str" -> IF v.s \in DOMAIN FloatLiteral THEN "" ELSE "ValueError"
      [] v.t \in {"none", "list", "dict"} -> "TypeError"

\* float(v) where it returns
FloatOf(v) == IF v.t = "num" THEN v.q ELSE FloatLiteral[v.s]

\* Python `float(v or 0)`: None and 0 both give 0.0
OrZero(v) == IF Truthy(v) THEN FloatOf(v) ELSE Zero
\* variant: the fallback written as `float(v or 0)`
OrOne_zero(v) == IF Truthy(v) THEN FloatOf(v) ELSE Zero

\* Python `float(v or 1.0)`: None and 0 both give 1.0
OrOne(v) == IF Truthy(v) THEN FloatOf(v) ELSE One

\* exceptions: the type and the source line that raises
NoExc == [type |-> ""]
Raise(type, line) == [type |-> type, line |-> line]

\* the first exception of a sequence of candidates, in statement order
RECURSIVE FirstExc(_)
FirstExc(cands) ==
    IF cands = <<>> THEN NoExc
    ELSE IF Head(cands) # NoExc THEN Head(cands)
    ELSE FirstExc(Tail(cands))

\* `float(v or d)` on one line
FloatOrExc(v, line) ==
    IF Truthy(v) /\ FloatError(v) # "" THEN Raise(FloatError(v), line) ELSE NoExc

\* `v * x` with x a float (or a sum with floats): anything but a number
\* raises TypeError
ArithExc(v, line) == IF v.t # "num" THEN Raise("TypeError", line) ELSE NoExc

(***************************************************************************)
(* DEFAULTS table and the enumerated parameter keys.                       *)
(***************************************************************************)
DEFAULTS ==
    [k \in {"infrastructure_cost_per_sqm", "superstructure_cost_per_sqm",
            "parking_area_sqm", "parking_cost_per_sqm", "efficiency_ratio",
            "brokerage_fee_pct", "real_estate_transfer_tax_pct",
            "brokerage_vat_pct", "developer_fee_pct", "other_indirect_pct",
            "contingency_pct", "presale_pct", "absorption_months",
            "bank_ltv_pct", "interest_rate_pct", "arrangement_fee_pct",
            "fund_period_years", "cash_purchase_pct", "in_kind_pct",
            "management_fee_pct", "custodian_fee_annual", "board_fee_annual",
            "sharia_certificate_fee", "sharia_board_fee_annual",
            "legal_counsel_fee", "auditor_fee_annual",
            "valuation_fee_quarterly", "other_reserve_pct",
            "spv_formation_fee", "structuring_fee_pct", "operator_fee_pct",
            "land_phasing", "direct_cost_phasing", "indirect_cost_phasing",
            "revenue_phasing"} |->
        CASE k = "infrastructure_cost_per_sqm" -> Num(I(500))
          [] k = "superstructure_cost_per_sqm" -> Num(I(2500))
          [] k = "parking_area_sqm" -> Num(I(0))
          [] k = "parking_cost_per_sqm" -> Num(I(2000))
          [] k = "efficiency_ratio" -> Num(Q(85, 100))
          [] k = "brokerage_fee_pct" -> Num(Q(25, 1000))
          [] k = "real_estate_transfer_tax_pct" -> Num(Q(5, 100))
          [] k = "brokerage_vat_pct" -> Num(Q(15, 100))
          [] k = "developer_fee_pct" -> Num(Q(10, 100))
          [] k = "other_indirect_pct" -> Num(Q(6, 100))
          [] k = "contingency_pct" -> Num(Q(5, 100))
          [] k = "presale_pct" -> Num(I(0))
          [] k = "absorption_months" -> Num(I(12))
          [] k = "bank_ltv_pct" -> Num(Q(667, 1000))
          [] k = "interest_rate_pct" -> Num(Q(8, 100))
          [] k = "arrangement_fee_pct" -> Num(Q(2, 100))
          [] k = "fund_period_years" -> Num(I(3))
          [] k = "cash_purchase_pct" -> Num(I(1))
          [] k = "in_kind_pct" -> Num(I(0))
          [] k = "management_fee_pct" -> Num(Q(15, 1000))
          [] k = "custodian_fee_annual" -> Num(I(50000))
          [] k = "board_fee_annual" -> Num(I(100000))
          [] k = "sharia_certificate_fee" -> Num(I(5000))
          [] k = "sharia_board_fee_annual" -> Num(I(5000))
          [] k = "legal_counsel_fee" -> Num(I(50000))
          [] k = "auditor_fee_annual" -> Num(I(50000))
          [] k = "valuation_fee_quarterly" -> Num(I(20000))
          [] k = "other_reserve_pct" -> Num(Q(5, 10000))
          [] k = "spv_formation_fee" -> Num(I(25000))
          [] k = "structuring_fee_pct" -> Num(Q(1, 100))
          [] k = "operator_fee_pct" -> Num(Q(15, 10000))
          [] k = "land_phasing" -> Lst(<<I(1), I(0), I(0)>>)
          [] k = "direct_cost_phasing" -> Lst(<<Q(33, 100), Q(45, 100), Q(22, 100)>>)
          [] k = "indirect_cost_phasing" -> Lst(<<Q(33, 100), Q(45, 100), Q(22, 100)>>)
          [] k = "revenue_phasing" -> Lst(<<I(0), I(0), I(1)>>)]

param_keys ==
    <<"land_area_sqm", "land_price_per_sqm", "sale_price_per_sqm",
      "max_floors", "far", "coverage_ratio", "allowed_uses",
      "building_code", "district",
      "infrastructure_cost_per_sqm", "superstructure_cost_per_sqm",
      "parking_area_sqm", "parking_cost_per_sqm", "efficiency_ratio",
      "brokerage_fee_pct", "real_estate_transfer_tax_pct",
      "brokerage_vat_pct",
      "developer_fee_pct", "other_indirect_pct", "contingency_pct",
      "presale_pct", "absorption_months",
      "bank_ltv_pct", "interest_rate_pct", "arrangement_fee_pct",
      "fund_period_years", "cash_purchase_pct", "in_kind_pct",
      "management_fee_pct", "custodian_fee_annual", "board_fee_annual",
      "sharia_certificate_fee", "sharia_board_fee_annual",
      "legal_counsel_fee", "auditor_fee_annual",
      "valuation_fee_quarterly", "other_reserve_pct",
      "spv_formation_fee", "structuring_fee_pct", "operator_fee_pct",
      "land_phasing", "direct_cost_phasing", "indirect_cost_phasing",
      "revenue_phasing">>

ParamKeySet == {param_keys[i] : i \in 1..Len(param_keys)}

PhasingKeys == {"land_phasing", "direct_cost_phasing",
                "indirect_cost_phasing", "revenue_phasing"}

\* auto_map: parameter key -> dotted path into the Land Object
auto_map ==
    [k \in {"land_area_sqm", "max_floors", "far", "coverage_ratio",
            "allowed_uses", "building_code", "district"} |->
        CASE k = "land_area_sqm" -> <<"area_sqm">>
          [] k = "max_floors" -> <<"regulations", "max_floors">>
          [] k = "far" -> <<"regulations", "far">>
          [] k = "coverage_ratio" -> <<"regulations", "coverage_ratio">>
          [] k = "allowed_uses" -> <<"regulations", "allowed_uses">>
          [] k = "building_code" -> <<"building_code_label">>
          [] k = "district" -> <<"district_name">>]

\* dict.get(part): None when the key is absent
DictGet(obj, part) == IF part \in DOMAIN obj.f THEN obj.f[part] ELSE None

\* the traversal loop of _resolve: a non-dict on the way gives None
RECURSIVE Walk(_, _)
Walk(obj, path) ==
    IF path = <<>> THEN obj
    ELSE IF obj.t = "dict" THEN Walk(DictGet(obj, Head(path)), Tail(path))
    ELSE None

\* variant: the Land Object consulted before the overrides
resolve_auto_first(key, land, ovr, defaults) ==
    IF key \in DOMAIN auto_map /\ ~IsNone(Walk(land, auto_map[key]))
    THEN [value |-> Walk(land, auto_map[key]), source |-> "auto"]
    ELSE IF key \in DOMAIN ovr /\ ~IsNone(ovr[key])
    THEN [value |-> ovr[key], source |-> "user"]
    ELSE IF key \in DOMAIN defaults
    THEN [value |-> defaults[key], source |-> "default"]
    ELSE [value |-> None, source |-> "missing"]

\* variant: `if key in overrides:` without the None test
resolve_null_user(key, land, ovr, defaults) ==
    IF key \in DOMAIN ovr
    THEN [value |-> ovr[key], source |-> "user"]
    ELSE IF key \in DOMAIN auto_map /\ ~IsNone(Walk(land, auto_map[key]))
    THEN [value |-> Walk(land, auto_map[key]), source |-> "auto"]
    ELSE IF key \in DOMAIN defaults
    THEN [value |-> defaults[key], source |-> "default"]
    ELSE [value |-> None, source |-> "missing"]

\* variant: whatever the traversal ends on is returned as the auto value
resolve_no_fallthrough(key, land, ovr, defaults) ==
    IF key \in DOMAIN ovr /\ ~IsNone(ovr[key])
    THEN [value |-> ovr[key], source |-> "user"]
    ELSE IF key \in DOMAIN auto_map
    THEN [value |-> Walk(land, auto_map[key]), source |-> "auto"]
    ELSE IF key \in DOMAIN defaults
    THEN [value |-> defaults[key], source |-> "default"]
    ELSE [value |-> None, source |-> "missing"]

\* _resolve(key, land_object, overrides), reading the module-level table
\* `defaults`
resolve(key, land, ovr, defaults) ==
    IF key \in DOMAIN ovr /\ ~IsNone(ovr[key])
    THEN [value |-> ovr[key], source |-> "user"]
    ELSE IF key \in DOMAIN auto_map /\ ~IsNone(Walk(land, auto_map[key]))
    THEN [value |-> Walk(land, auto_map[key]), source |-> "auto"]
    ELSE IF key \in DOMAIN defaults
    THEN [value |-> defaults[key], source |-> "default"]
    ELSE [value |-> None, source |-> "missing"]


(***************************************************************************)
(* Explored inputs: Land Objects and Override Maps.                        *)
(***************************************************************************)
Regulations ==
    {Dict([k \in {"far"} |-> None]),
     Dict([k \in {"far", "max_floors", "coverage_ratio"} |->
            CASE k = "far" -> Num(I(MaxFar))
              [] k = "max_floors" -> Num(I(3))
              [] k = "coverage_ratio" -> Num(Q(1, 2))])}

LandObjects ==
    {Dict(EmptyMap),
     Dict([k \in {"area_sqm"} |-> Num(I(MaxArea))]),
     Dict([k \in {"area_sqm", "regulations"} |->
            IF k = "area_sqm" THEN Num(I(MaxArea)) ELSE None]),
     Dict([k \in {"area_sqm", "regulations"} |->
            IF k = "area_sqm" THEN Num(I(MaxArea)) ELSE Str("n/a")])}
    \cup {Dict([k \in {"area_sqm", "regulations"} |->
                 IF k = "area_sqm" THEN Num(I(MaxArea)) ELSE r]) :
             r \in Regulations}
    \cup {Dict([k \in {"area_sqm", "district_name", "regulations"} |->
                 CASE k = "area_sqm" -> None
                   [] k = "district_name" -> Str("north")
                   [] k = "regulations" -> r]) : r \in Regulations}

\* a caller that supplies every cost, fee and financing figure itself
SmallProfile ==
    [k \in {"land_price_per_sqm", "sale_price_per_sqm",
            "infrastructure_cost_per_sqm", "superstructure_cost_per_sqm",
            "parking_area_sqm", "parking_cost_per_sqm", "efficiency_ratio",
            "brokerage_fee_pct", "real_estate_transfer_tax_pct",
            "brokerage_vat_pct", "developer_fee_pct", "other_indirect_pct",
            "contingency_pct", "bank_ltv_pct", "interest_rate_pct",
            "arrangement_fee_pct", "management_fee_pct",
            "custodian_fee_annual", "board_fee_annual",
            "sharia_certificate_fee", "sharia_board_fee_annual",
            "legal_counsel_fee", "auditor_fee_annual",
            "valuation_fee_quarterly", "other_reserve_pct",
            "spv_formation_fee", "structuring_fee_pct", "operator_fee_pct",
            "direct_cost_phasing", "indirect_cost_phasing"} |->
        CASE k = "land_price_per_sqm" -> Num(I(MaxPrice))
          [] k = "sale_price_per_sqm" -> Num(I(10 * MaxPrice))
          [] k = "infrastructure_cost_per_sqm" -> Num(I(1))
          [] k = "superstructure_cost_per_sqm" -> Num(I(2))
          [] k = "parking_area_sqm" -> Num(I(1))
          [] k = "parking_cost_per_sqm" -> Num(I(1))
          [] k = "efficiency_ratio" -> Num(Q(1, 2))
          [] k = "brokerage_fee_pct" -> Num(Q(1, 10))
          [] k = "real_estate_transfer_tax_pct" -> Num(Q(1, 5))
          [] k = "brokerage_vat_pct" -> Num(Q(1, 2))
          [] k = "developer_fee_pct" -> Num(Q(1, 10))
          [] k = "other_indirect_pct" -> Num(I(0))
          [] k = "contingency_pct" -> Num(Q(1, 10))
          [] k = "bank_ltv_pct" -> Num(Q(1, 2))
          [] k = "interest_rate_pct" -> Num(Q(1, 10))
          [] k = "arrangement_fee_pct" -> Num(Q(1, 10))
          [] k = "management_fee_pct" -> Num(Q(1, 10))
          [] k = "custodian_fee_annual" -> Num(I(1))
          [] k = "board_fee_annual" -> Num(I(1))
          [] k = "sharia_certificate_fee" -> Num(I(1))
          [] k = "sharia_board_fee_annual" -> Num(I(0))
          [] k = "legal_counsel_fee" -> Num(I(1))
          [] k = "auditor_fee_annual" -> Num(I(0))
          [] k = "valuation_fee_quarterly" -> Num(I(1))
          [] k = "other_reserve_pct" -> Num(I(0))
          [] k = "spv_formation_fee" -> Num(I(1))
          [] k = "structuring_fee_pct" -> Num(Q(1, 10))
          [] k = "operator_fee_pct" -> Num(Q(1, 10))
          [] k = "direct_cost_phasing" -> Lst(<<I(1), I(2), I(1)>>)
          [] k = "indirect_cost_phasing" -> Lst(<<I(1), I(1)>>)]

Profiles == {EmptyMap, SmallProfile}

\* single entries a caller may add to (or set over) a profile
Edits ==
    {<<"land_area_sqm", None>>, <<"land_area_sqm", Num(I(0))>>,
     <<"land_area_sqm", Num(I(1))>>,
     <<"far", None>>, <<"far", Num(Q(3, 2))>>, <<"far", Num(I(0))>>,
     <<"district", Str("south")>>,
     <<"sale_price_per_sqm", Num(I(0))>>,
     <<"in_kind_pct", None>>, <<"in_kind_pct", Num(Q(1, 2))>>,
     <<"fund_period_years", Num(I(0))>>, <<"fund_period_years", Num(I(1))>>,
     <<"fund_period_years", Num(I(2))>>,
     <<"bank_ltv_pct", Num(I(10))>>,
     <<"revenue_phasing", Lst(<<I(1), I(3)>>)>>,
     <<"land_phasing", Lst(<<I(0), I(0), I(0)>>)>>,
     <<"_skip_sensitivity", Num(I(1))>>,
     <<"land_area_sqm", Str("2")>>, <<"land_area_sqm", Str("two")>>,
     <<"brokerage_fee_pct", Lst(<<Q(1, 10)>>)>>,
     <<"custodian_fee_annual", Str("two")>>,
     <<"revenue_phasing", Num(I(1))>>,
     <<"max_floors", Str("two")>>}

NoEdit == <<"", None>>

Overlay(m, e) ==
    IF e = NoEdit THEN m
    ELSE [k \in DOMAIN m \cup {e[1]} |-> IF k = e[1] THEN e[2] ELSE m[k]]

OverrideMaps ==
    {Overlay(Overlay(pr, e1), e2) :
        pr \in Profiles, e1 \in Edits \cup {NoEdit}, e2 \in Edits \cup {NoEdit}}

\* a caller that supplies the figures but leaves the four phasing vectors
\* to DEFAULTS, for fund periods shorter than, equal to and longer than them
DefaultPhasingProfile ==
    [k \in DOMAIN SmallProfile \ PhasingKeys |-> SmallProfile[k]]

DefaultPhasingInputs ==
    {<<Dict([k \in {"area_sqm"} |-> Num(I(MaxArea))]),
       Overlay(DefaultPhasingProfile, e)>> :
        e \in {NoEdit, <<"fund_period_years", Num(I(1))>>,
                       <<"fund_period_years", Num(I(2))>>,
                       <<"fund_period_years", Num(I(4))>>}}

\* The explored calls.  A caller either supplies the cost, fee and financing
\* figures itself or passes a parcel whose land area resolves to zero: with
\* the DEFAULTS figures and a built area the exact fractions leave the
\* range of the integers the checker computes with.
Inputs ==
    {in \in LandObjects \X OverrideMaps :
        \/ DOMAIN SmallProfile \subseteq DOMAIN in[2]
        \/ LET area == resolve("land_area_sqm", in[1], in[2], DEFAULTS).value
           IN  FloatOrExc(area, 209) # NoExc \/ RIsZero(OrZero(area))}
    \cup DefaultPhasingInputs

\* The input whose first result is remembered, to compare its later calls
\* against, and the calls interleaved with it.
Probe ==
    <<Dict([k \in {"area_sqm", "district_name", "parcel_number"} |->
             CASE k = "area_sqm" -> Num(I(MaxArea))
               [] k = "district_name" -> Str("north")
               [] k = "parcel_number" -> Str("1234")]),
      SmallProfile>>

\* The two reference deals.  Areas are written in thousands of sqm and
\* amounts in millions of SAR (unit prices in thousands of SAR per sqm):
\* every amount the engine computes is linear in the unit of area and in the
\* unit of money.  The fixed fees are the DEFAULTS amounts in that unit.
FixedFeeKeys ==
    {"custodian_fee_annual", "board_fee_annual", "sharia_certificate_fee",
     "sharia_board_fee_annual", "legal_counsel_fee", "auditor_fee_annual",
     "valuation_fee_quarterly", "spv_formation_fee"}

InMillions(sar) == Q(sar, 1000000)

ReferenceOverrides(given) ==
    [k \in DOMAIN given \cup FixedFeeKeys |->
        IF k \in DOMAIN given THEN given[k]
        ELSE Num(InMillions(DEFAULTS[k].q[1]))]

\* validate_al_hada.py: 35,000 sqm, FAR 1.5, land 7,000, sale 12,500,
\* parking 15,000 sqm at 2,000, 3 years, efficiency 1.0; the script writes
\* the LTV of 66.67% as 0.6666666666
AlHada ==
    <<Dict([k \in {"area_sqm", "regulations", "building_code_label",
                   "district_name"} |->
             CASE k = "area_sqm" -> Num(I(35))
               [] k = "regulations" ->
                    Dict([j \in {"max_floors", "far", "coverage_ratio"} |->
                           CASE j = "max_floors" -> None
                             [] j = "far" -> Num(Q(3, 2))
                             [] j = "coverage_ratio" -> Num(Q(3, 5))])
               [] k = "building_code_label" -> Str("test")
               [] k = "district_name" -> Str("al-hada")]),
      ReferenceOverrides(
        [k \in {"land_price_per_sqm", "sale_price_per_sqm",
                "infrastructure_cost_per_sqm", "superstructure_cost_per_sqm",
                "parking_area_sqm", "parking_cost_per_sqm",
                "fund_period_years", "bank_ltv_pct", "interest_rate_pct",
                "efficiency_ratio"} |->
            CASE k = "land_price_per_sqm" -> Num(I(7))
              [] k = "sale_price_per_sqm" -> Num(Q(25, 2))
              [] k = "infrastructure_cost_per_sqm" -> Num(Q(1, 2))
              [] k = "superstructure_cost_per_sqm" -> Num(Q(5, 2))
              [] k = "parking_area_sqm" -> Num(I(15))
              [] k = "parking_cost_per_sqm" -> Num(I(2))
              [] k = "fund_period_years" -> Num(I(3))
              [] k = "bank_ltv_pct" -> Num(Q(6667, 10000))
              [] k = "interest_rate_pct" -> Num(Q(8, 100))
              [] k = "efficiency_ratio" -> Num(I(1))])>>

\* validate_malqa.py: 3,712 sqm, FAR 1.625, land 13,000, sale 15,500,
\* in-kind 70%, infrastructure 300, no parking, LTV 66.7%, efficiency 1.0,
\* other_indirect_pct 0.05
AlMalqa ==
    <<Dict([k \in {"area_sqm", "regulations", "building_code_label",
                   "district_name"} |->
             CASE k = "area_sqm" -> Num(Q(3712, 1000))
               [] k = "regulations" ->
                    Dict([j \in {"max_floors", "far", "coverage_ratio"} |->
                           CASE j = "max_floors" -> Num(I(2))
                             [] j = "far" -> Num(Q(1625, 1000))
                             [] j = "coverage_ratio" -> Num(Q(65, 100))])
               [] k = "building_code_label" -> Str("test")
               [] k = "district_name" -> Str("al-malqa")]),
      ReferenceOverrides(
        [k \in {"land_price_per_sqm", "sale_price_per_sqm",
                "infrastructure_cost_per_sqm", "superstructure_cost_per_sqm",
                "parking_area_sqm", "far", "in_kind_pct",
                "fund_period_years", "bank_ltv_pct", "interest_rate_pct",
                "efficiency_ratio", "other_indirect_pct"} |->
            CASE k = "land_price_per_sqm" -> Num(I(13))
              [] k = "sale_price_per_sqm" -> Num(Q(31, 2))
              [] k = "infrastructure_cost_per_sqm" -> Num(Q(3, 10))
              [] k = "superstructure_cost_per_sqm" -> Num(Q(5, 2))
              [] k = "parking_area_sqm" -> Num(I(0))
              [] k = "far" -> Num(Q(1625, 1000))
              [] k = "in_kind_pct" -> Num(Q(70, 100))
              [] k = "fund_period_years" -> Num(I(3))
              [] k = "bank_ltv_pct" -> Num(Q(667, 1000))
              [] k = "interest_rate_pct" -> Num(Q(8, 100))
              [] k = "efficiency_ratio" -> Num(I(1))
              [] k = "other_indirect_pct" -> Num(Q(5, 100))])>>

CallInputs ==
    {Probe, AlHada, AlMalqa,
     <<Dict(EmptyMap), EmptyMap>>,
     <<Dict(EmptyMap), Overlay(EmptyMap, <<"fund_period_years", Num(I(0))>>)>>,
     <<Probe[1], Overlay(SmallProfile, <<"fund_period_years", Num(I(2))>>)>>,
     <<Probe[1], Overlay(SmallProfile, <<"in_kind_pct", Num(Q(1, 2))>>)>>,
     <<Probe[1], Overlay(SmallProfile, <<"far", Num(Q(3, 2))>>)>>,
     <<Probe[1], Overlay(SmallProfile, <<"in_kind_pct", Num(I(1))>>)>>,
     <<Probe[1], Overlay(SmallProfile, <<"superstructure_cost_per_sqm", Num(I(3))>>)>>,
     <<Probe[1], Overlay(SmallProfile, <<"parking_area_sqm", Num(I(2))>>)>>,
     <<Probe[1], Overlay(SmallProfile, <<"management_fee_pct", Num(Q(1, 5))>>)>>,
     <<Probe[1], Overlay(SmallProfile, <<"custodian_fee_annual", Str("two")>>)>>}

Unset == [t |-> "unset"]

(***************************************************************************)
(* State.                                                                  *)
(***************************************************************************)
VARIABLES
    pc,                 \* position inside compute_proforma
    defaults,           \* the module-level DEFAULTS dict
    land_object,        \* argument
    overrides,          \* argument (user_overrides or {})
    params,             \* resolved parameters: key -> (value, source)
    phases,             \* n_years and the four normalised phasing arrays
    land_costs, construction_costs, revenue, financing, fund_fees,
    debt,               \* drawdown / outstanding / repayment arrays
    fund_size, cash_flows, kpis, sensitivity, data_health,
    result,             \* returned ProFormaResult
    seen,               \* first result returned for Probe; other calls since
    exc,                \* the exception the call raised, if any
    batch,              \* the run_scenarios request being served
    land_cache,         \* _land_cache: parcel_id -> Land Object
    reg_cache,          \* _reg_cache: BUILDINGUSECODE -> decoded regulations
    srem_cache,         \* _srem_cache of srem_client
    fetch               \* the fetch_land_object / clear_caches call

vars == <<pc, defaults, land_object, overrides, params, phases, land_costs,
          construction_costs, revenue, financing, fund_fees, debt, fund_size,
          cash_flows, kpis, sensitivity, data_health, result, seen, exc,
          batch, land_cache, reg_cache, srem_cache, fetch>>

\* the state of the web service around the engine
svc_vars == <<batch, land_cache, reg_cache, srem_cache, fetch>>

\* the engine's call frame and module state
engine_vars == <<pc, defaults, land_object, overrides, params, phases,
                 land_costs, construction_costs, revenue, financing,
                 fund_fees, debt, fund_size, cash_flows, kpis, sensitivity,
                 data_health, result, seen, exc>>

NoBatch == [stage |-> "none"]
NoFetch == [pc |-> "idle"]

Init ==
    /\ pc = "idle"
    /\ defaults = DEFAULTS
    /\ land_object = Unset
    /\ overrides = Unset
    /\ params = Unset
    /\ phases = Unset
    /\ land_costs = Unset
    /\ construction_costs = Unset
    /\ revenue = Unset
    /\ financing = Unset
    /\ fund_fees = Unset
    /\ debt = Unset
    /\ fund_size = Unset
    /\ cash_flows = Unset
    /\ kpis = Unset
    /\ sensitivity = Unset
    /\ data_health = Unset
    /\ result = Unset
    /\ seen = [first |-> Unset, interleaved |-> FALSE]
    /\ exc = NoExc
    /\ batch = NoBatch
    /\ land_cache = EmptyMap
    /\ reg_cache = EmptyMap
    /\ srem_cache = EmptyMap
    /\ fetch = NoFetch

\* a call of compute_proforma(land_object, user_overrides)
Begin(in) ==
    /\ pc = "idle"
    /\ land_object' = in[1]
    /\ overrides' = in[2]
    /\ pc' = "resolve"
    /\ params' = Unset
    /\ phases' = Unset
    /\ land_costs' = Unset
    /\ construction_costs' = Unset
    /\ revenue' = Unset
    /\ financing' = Unset
    /\ fund_fees' = Unset
    /\ debt' = Unset
    /\ fund_size' = Unset
    /\ cash_flows' = Unset
    /\ kpis' = Unset
    /\ sensitivity' = Unset
    /\ data_health' = Unset
    /\ result' = Unset
    /\ UNCHANGED <<defaults, seen, exc>>

Invoke == \E in \in Inputs : Begin(in) /\ UNCHANGED svc_vars

InvokeCall == \E in \in CallInputs : Begin(in) /\ UNCHANGED svc_vars

(***************************************************************************)
(* 1. Resolve all inputs.                                                  *)
(***************************************************************************)
p(key) == params[key].value
pq(key) == params[key].value.q

PadTrunc(arr, n) ==
    [i \in 1..n |-> IF i <= Len(arr) THEN arr[i] ELSE Zero]

\* _phase: pad / truncate to n_years, then normalise when the sum is > 0
phase(arr, n) ==
    LET a == PadTrunc(arr, n)
        s == ASum(a)
    IN  IF RPos(s) THEN ADivS(a, s) ELSE a

\* np.array(v, dtype=float) then len(arr): a string that is not a numeral
\* cannot be converted (ValueError); a dict cannot either (TypeError); a
\* number or a numeral gives an unsized array, and len() raises TypeError
PhaseExc(v) ==
    CASE v.t = "list" -> NoExc
      [] v.t = "str" -> IF v.s \in DOMAIN FloatLiteral
                        THEN Raise("TypeError", 191) ELSE Raise("ValueError", 190)
      [] v.t = "num" -> Raise("TypeError", 191)
      [] v.t \in {"none", "dict"} -> Raise("TypeError", 190)

\* int(p("fund_period_years")) and the four _phase calls
ResolveExc(ps) ==
    FirstExc(<<IF FloatError(ps["fund_period_years"].value) # ""
               THEN Raise(FloatError(ps["fund_period_years"].value), 186)
               ELSE NoExc,
               PhaseExc(ps["land_phasing"].value),
               PhaseExc(ps["direct_cost_phasing"].value),
               PhaseExc(ps["indirect_cost_phasing"].value),
               PhaseExc(ps["revenue_phasing"].value)>>)

\* variant: _phase working on the DEFAULTS list itself instead of a copy
ResolveInputs_inplace ==
    /\ pc = "resolve"
    /\ LET ps == [k \in ParamKeySet |-> resolve(k, land_object, overrides, defaults)]
           n == Trunc(FloatOf(ps["fund_period_years"].value))
       IN  /\ params' = ps
           /\ IF ResolveExc(ps) # NoExc
              THEN /\ pc' = "raised"
                   /\ exc' = ResolveExc(ps)
                   /\ UNCHANGED <<phases, defaults>>
              ELSE /\ pc' = "land"
                   /\ exc' = NoExc
                   /\ phases' =
                        [n_years |-> n,
                         land_ph |-> phase(ps["land_phasing"].value.v, n),
                         direct_ph |-> phase(ps["direct_cost_phasing"].value.v, n),
                         indirect_ph |-> phase(ps["indirect_cost_phasing"].value.v, n),
                         revenue_ph |-> phase(ps["revenue_phasing"].value.v, n)]
                   /\ defaults' = [k \in DOMAIN defaults |->
                                     IF k \in PhasingKeys /\ ps[k].source = "default"
                                     THEN Lst(phase(defaults[k].v, n))
                                     ELSE defaults[k]]
    /\ UNCHANGED <<land_object, overrides, land_costs,
                   construction_costs, revenue, financing, fund_fees,
                   debt, fund_size, cash_flows, kpis, sensitivity, data_health,
                   result, seen>>
    /\ UNCHANGED svc_vars

ResolveInputs ==
    /\ pc = "resolve"
    /\ LET ps == [k \in ParamKeySet |-> resolve(k, land_object, overrides, defaults)]
           n == Trunc(FloatOf(ps["fund_period_years"].value))
       IN  /\ params' = ps
           /\ IF ResolveExc(ps) # NoExc
              THEN /\ pc' = "raised"
                   /\ exc' = ResolveExc(ps)
                   /\ UNCHANGED phases
              ELSE /\ pc' = "land"
                   /\ exc' = NoExc
                   /\ phases' =
                        [n_years |-> n,
                         land_ph |-> phase(ps["land_phasing"].value.v, n),
                         direct_ph |-> phase(ps["direct_cost_phasing"].value.v, n),
                         indirect_ph |-> phase(ps["indirect_cost_phasing"].value.v, n),
                         revenue_ph |-> phase(ps["revenue_phasing"].value.v, n)]
    /\ UNCHANGED <<defaults, land_object, overrides, land_costs,
                   construction_costs, revenue, financing, fund_fees,
                   debt, fund_size, cash_flows, kpis, sensitivity, data_health,
                   result, seen>>
    /\ UNCHANGED svc_vars

(***************************************************************************)
(* 2. Land costs (in-kind aware).                                          *)
(***************************************************************************)
\* variant: the tax reduced in proportion to the cash share
transfer_tax_proportional(in_kind_pct, tax_pct, land_price_total) ==
    RMul(RMul(tax_pct, land_price_total), RSub(One, in_kind_pct))

transfer_tax_of(in_kind_pct, tax_pct, land_price_total) ==
    IF RIsZero(in_kind_pct) THEN RMul(tax_pct, land_price_total) ELSE Zero

\* variant: the broker paid on the cash share of the price only
brokerage_fee_cash_only(fee_pct, land_price_total, in_kind_pct) ==
    RMul(fee_pct, RMul(land_price_total, RSub(One, in_kind_pct)))

\* brokerage: always on the full land price
brokerage_fee_of(fee_pct, land_price_total, in_kind_pct) ==
    RMul(fee_pct, land_price_total)

\* variant: the cash share taken as total_land * cash_pct
cash_land_by_cash_pct(total_land, land_price_total, in_kind_pct) ==
    RMul(total_land, RSub(One, in_kind_pct))

\* cash_land = total_land - in_kind_value
cash_land_of(total_land, land_price_total, in_kind_pct) ==
    RSub(total_land, RMul(land_price_total, in_kind_pct))

\* the statements of section 2 that can raise, in order
LandCostsExc ==
    FirstExc(<<FloatOrExc(p("land_area_sqm"), 209),
               FloatOrExc(p("land_price_per_sqm"), 210),
               FloatOrExc(p("in_kind_pct"), 211),
               ArithExc(p("brokerage_fee_pct"), 218),
               ArithExc(p("brokerage_vat_pct"), 219),
               IF FloatOrExc(p("in_kind_pct"), 211) = NoExc
                  /\ RIsZero(OrZero(p("in_kind_pct")))
               THEN ArithExc(p("real_estate_transfer_tax_pct"), 221)
               ELSE NoExc>>)

LandCosts ==
    /\ pc = "land"
    /\ LandCostsExc = NoExc
    /\ LET land_area == OrZero(p("land_area_sqm"))
           land_ppmsq == OrZero(p("land_price_per_sqm"))
           in_kind_pct == OrZero(p("in_kind_pct"))
           land_price_total == RMul(land_area, land_ppmsq)
           in_kind_value == RMul(land_price_total, in_kind_pct)
           brokerage_fee == brokerage_fee_of(pq("brokerage_fee_pct"),
                                             land_price_total, in_kind_pct)
           brokerage_vat == RMul(pq("brokerage_vat_pct"), brokerage_fee)
           transfer_tax == transfer_tax_of(in_kind_pct,
                               pq("real_estate_transfer_tax_pct"), land_price_total)
           total_land == RAdd(RAdd(RAdd(land_price_total, brokerage_fee),
                                   transfer_tax), brokerage_vat)
           cash_land == cash_land_of(total_land, land_price_total, in_kind_pct)
       IN  land_costs' = [land_price_total |-> land_price_total,
                          brokerage_fee |-> brokerage_fee,
                          transfer_tax |-> transfer_tax,
                          brokerage_vat |-> brokerage_vat,
                          total_land_acquisition |-> total_land,
                          cash_portion |-> cash_land,
                          in_kind_portion |-> in_kind_value,
                          in_kind_pct |-> in_kind_pct]
    /\ pc' = "construction"
    /\ UNCHANGED <<defaults, land_object, overrides, params, phases,
                   construction_costs, revenue, financing, fund_fees,
                   debt, fund_size, cash_flows, kpis, sensitivity, data_health,
                   result, seen, exc>>
    /\ UNCHANGED svc_vars

(***************************************************************************)
(* 3. Construction costs.                                                  *)
(***************************************************************************)
\* the statements of section 3 that can raise, in order
ConstructionCostsExc ==
    FirstExc(<<FloatOrExc(p("far"), 241),
               ArithExc(p("efficiency_ratio"), 243),
               ArithExc(p("infrastructure_cost_per_sqm"), 245),
               ArithExc(p("superstructure_cost_per_sqm"), 246),
               FloatOrExc(p("parking_area_sqm"), 247),
               ArithExc(p("parking_cost_per_sqm"), 248),
               ArithExc(p("developer_fee_pct"), 251),
               ArithExc(p("other_indirect_pct"), 252),
               ArithExc(p("contingency_pct"), 253)>>)

ConstructionCosts ==
    /\ pc = "construction"
    /\ ConstructionCostsExc = NoExc
    /\ LET land_area == OrZero(p("land_area_sqm"))
           far_val == OrOne(p("far"))
           gba == RMul(land_area, far_val)
           sellable == RMul(gba, pq("efficiency_ratio"))
           infra_cost == RMul(gba, pq("infrastructure_cost_per_sqm"))
           super_cost == RMul(gba, pq("superstructure_cost_per_sqm"))
           parking_area == OrZero(p("parking_area_sqm"))
           parking_cost == RMul(parking_area, pq("parking_cost_per_sqm"))
           total_direct == RAdd(RAdd(infra_cost, super_cost), parking_cost)
           dev_fee == RMul(pq("developer_fee_pct"), total_direct)
           other_indirect == RMul(pq("other_indirect_pct"), total_direct)
           contingency == RMul(pq("contingency_pct"), total_direct)
           total_indirect == RAdd(RAdd(dev_fee, other_indirect), contingency)
           total_construction == RAdd(total_direct, total_indirect)
       IN  construction_costs' =
               [gba_sqm |-> gba,
                sellable_area_sqm |-> sellable,
                infrastructure_cost |-> infra_cost,
                superstructure_cost |-> super_cost,
                parking_cost |-> parking_cost,
                total_direct_cost |-> total_direct,
                developer_fee |-> dev_fee,
                other_indirect |-> other_indirect,
                contingency |-> contingency,
                total_indirect_cost |-> total_indirect,
                total_construction |-> total_construction]
    /\ pc' = "revenue"
    /\ UNCHANGED <<defaults, land_object, overrides, params, phases,
                   land_costs, revenue, financing, fund_fees, debt, fund_size,
                   cash_flows, kpis, sensitivity, data_health, result, seen, exc>>
    /\ UNCHANGED svc_vars

(***************************************************************************)
(* 4. Revenue.                                                             *)
(***************************************************************************)
RevenueExc == FloatOrExc(p("sale_price_per_sqm"), 274)

Revenue ==
    /\ pc = "revenue"
    /\ RevenueExc = NoExc
    /\ LET sale_ppmsq == OrZero(p("sale_price_per_sqm"))
           gross_revenue == RMul(construction_costs.sellable_area_sqm, sale_ppmsq)
       IN  revenue' = [sellable_area_sqm |-> construction_costs.sellable_area_sqm,
                       sale_price_per_sqm |-> sale_ppmsq,
                       gross_revenue |-> gross_revenue,
                       net_revenue |-> gross_revenue]
    /\ pc' = "financing"
    /\ UNCHANGED <<defaults, land_object, overrides, params, phases,
                   land_costs, construction_costs, financing, fund_fees,
                   debt, fund_size, cash_flows, kpis, sensitivity, data_health,
                   result, seen, exc>>
    /\ UNCHANGED svc_vars

(***************************************************************************)
(* 5. Financing.                                                           *)
(***************************************************************************)
\* variant: the loan sized off the total land acquisition cost
bank_loan_on_total_land(ltv_pct, land_price_total, total_land) ==
    RMul(ltv_pct, total_land)

\* the loan is sized off the raw land price
bank_loan_of(ltv_pct, land_price_total, total_land) ==
    RMul(ltv_pct, land_price_total)

FinancingExc ==
    FirstExc(<<ArithExc(p("bank_ltv_pct"), 287),
               ArithExc(p("arrangement_fee_pct"), 288)>>)

Financing ==
    /\ pc = "financing"
    /\ FinancingExc = NoExc
    /\ LET bank_loan == bank_loan_of(pq("bank_ltv_pct"), land_costs.land_price_total,
                                     land_costs.total_land_acquisition)
           arrangement_fee == RMul(pq("arrangement_fee_pct"), bank_loan)
       IN  financing' = [bank_loan_amount |-> bank_loan,
                         interest_rate_pct |-> pq("interest_rate_pct"),
                         arrangement_fee |-> arrangement_fee]
    /\ pc' = "fees"
    /\ UNCHANGED <<defaults, land_object, overrides, params, phases,
                   land_costs, construction_costs, revenue, fund_fees,
                   debt, fund_size, cash_flows, kpis, sensitivity, data_health,
                   result, seen, exc>>
    /\ UNCHANGED svc_vars


(***************************************************************************)
(* 6. Fund fees (estimated over the full fund period).                     *)
(***************************************************************************)
\* the statements of section 6 that can raise, in order: a product with a
\* float raises on anything but a number; a product with the int n repeats
\* a string or a list, which then fails in the sum of lines 319-323
FundFeesExc ==
    FirstExc(<<ArithExc(p("management_fee_pct"), 302),
               IF p("sharia_certificate_fee").t # p("sharia_board_fee_annual").t
               THEN Raise("TypeError", 305) ELSE NoExc,
               ArithExc(p("other_reserve_pct"), 309),
               ArithExc(p("operator_fee_pct"), 311),
               ArithExc(p("interest_rate_pct"), 315),
               ArithExc(p("structuring_fee_pct"), 317),
               ArithExc(p("custodian_fee_annual"), 319),
               ArithExc(p("board_fee_annual"), 319),
               ArithExc(p("sharia_certificate_fee"), 319),
               ArithExc(p("legal_counsel_fee"), 319),
               ArithExc(p("auditor_fee_annual"), 319),
               ArithExc(p("valuation_fee_quarterly"), 319),
               ArithExc(p("spv_formation_fee"), 319)>>)

\* variant: the loan left inside the estimated equity
est_equity_loan_kept(pre_fees, bank_loan, interest_rate_pct, n, arrangement_fee, in_kind_value) ==
    RSub(RAdd(RAdd(pre_fees, RMul(RMul(bank_loan, interest_rate_pct), n)),
              arrangement_fee), in_kind_value)

\* first-pass estimate of the equity, before the fund size is known
est_equity_of(pre_fees, bank_loan, interest_rate_pct, n, arrangement_fee, in_kind_value) ==
    LET est_total_fund ==
            RAdd(RAdd(pre_fees, RMul(RMul(bank_loan, interest_rate_pct), n)),
                 arrangement_fee)
    IN  RSub(RSub(est_total_fund, bank_loan), in_kind_value)

FundFees ==
    /\ pc = "fees"
    /\ FundFeesExc = NoExc
    /\ LET total_land == land_costs.total_land_acquisition
           total_construction == construction_costs.total_construction
           bank_loan == financing.bank_loan_amount
           arrangement_fee == financing.arrangement_fee
           in_kind_value == land_costs.in_kind_portion
           total_cost_base == RAdd(total_land, total_construction)
           n == I(phases.n_years)
           mgmt_fee_total == RMul(pq("management_fee_pct"), total_cost_base)
           custodian_total == RMul(pq("custodian_fee_annual"), n)
           board_total == RMul(pq("board_fee_annual"), n)
           sharia_total == RAdd(pq("sharia_certificate_fee"),
                                RMul(pq("sharia_board_fee_annual"), n))
           legal_total == pq("legal_counsel_fee")
           auditor_total == RMul(pq("auditor_fee_annual"), n)
           valuation_total == RMul(RMul(pq("valuation_fee_quarterly"), I(4)), n)
           reserve_total == RMul(pq("other_reserve_pct"), total_cost_base)
           spv_total == pq("spv_formation_fee")
           operator_total == RMul(pq("operator_fee_pct"), total_cost_base)
           pre_fees == RAdd(total_land, total_construction)
           est_equity == est_equity_of(pre_fees, bank_loan, pq("interest_rate_pct"),
                                       n, arrangement_fee, in_kind_value)
           structuring_total == RMul(pq("structuring_fee_pct"), est_equity)
           total_fund_fees ==
               ASum(<<mgmt_fee_total, custodian_total, board_total, sharia_total,
                      legal_total, auditor_total, valuation_total, reserve_total,
                      spv_total, structuring_total, operator_total>>)
       IN  fund_fees' = [management_fee |-> mgmt_fee_total,
                         custodian_fee |-> custodian_total,
                         board_fee |-> board_total,
                         sharia_fees |-> sharia_total,
                         legal_counsel |-> legal_total,
                         auditor_fee |-> auditor_total,
                         valuation_fee |-> valuation_total,
                         other_reserve |-> reserve_total,
                         spv_fee |-> spv_total,
                         structuring_fee |-> structuring_total,
                         operator_fee |-> operator_total,
                         total_fund_fees |-> total_fund_fees]
    /\ pc' = "interest"
    /\ UNCHANGED <<defaults, land_object, overrides, params, phases,
                   land_costs, construction_costs, revenue, financing,
                   debt, fund_size, cash_flows, kpis, sensitivity,
                   data_health, result, seen, exc>>
    /\ UNCHANGED svc_vars

(***************************************************************************)
(* 7. Total interest (year-by-year debt outstanding).                      *)
(***************************************************************************)
\* variant: the principal repaid in the first year
debt_repay_first_year(n, bank_loan) ==
    [i \in 1..n |-> IF i = 1 THEN bank_loan ELSE Zero]

\* np.zeros(n) with its last entry set to bank_loan
debt_repay_of(n, bank_loan) ==
    [i \in 1..n |-> IF i = n THEN bank_loan ELSE Zero]

\* variant: the loan drawn in equal shares whatever the yearly need
spend_share_equal(total_cash_needs, n) ==
    AConst(Q(1, n), n)

\* total_cash_needs / total_cash_needs.sum() if the sum is > 0 else ones(n) / n
spend_share_of(total_cash_needs, n) ==
    IF RPos(ASum(total_cash_needs))
    THEN ADivS(total_cash_needs, ASum(total_cash_needs))
    ELSE AConst(Q(1, n), n)

\* `debt_repayment[-1] = bank_loan` on an array of n_years entries raises
\* IndexError when n_years = 0 (and np.zeros raises for n_years < 0)
Interest ==
    /\ pc = "interest"
    /\ LET n == phases.n_years
           total_land == land_costs.total_land_acquisition
           in_kind_value == land_costs.in_kind_portion
           total_direct == construction_costs.total_direct_cost
           total_indirect == construction_costs.total_indirect_cost
           bank_loan == financing.bank_loan_amount
           cash_land_outflow == AScale(RSub(total_land, in_kind_value), phases.land_ph)
           construction_yearly == APlus(AScale(total_direct, phases.direct_ph),
                                        AScale(total_indirect, phases.indirect_ph))
           total_cash_needs == APlus(cash_land_outflow, construction_yearly)
           spend_share == spend_share_of(total_cash_needs, n)
           debt_drawdown == AScale(bank_loan, spend_share)
           debt_outstanding == ACumsum(debt_drawdown)
           debt_repayment == debt_repay_of(n, bank_loan)
           interest_yearly == AScale(pq("interest_rate_pct"), debt_outstanding)
           total_interest == ASum(interest_yearly)
       IN  IF n <= 0
           THEN /\ pc' = "raised"
                /\ exc' = Raise("IndexError", 360)
                /\ UNCHANGED <<financing, debt>>
           ELSE /\ pc' = "fund_size"
                /\ exc' = NoExc
                /\ debt' = [debt_drawdown |-> debt_drawdown,
                            debt_outstanding |-> debt_outstanding,
                            debt_repayment |-> debt_repayment]
                /\ financing' = [bank_loan_amount |-> financing.bank_loan_amount,
                                 interest_rate_pct |-> financing.interest_rate_pct,
                                 arrangement_fee |-> financing.arrangement_fee,
                                 total_interest |-> total_interest,
                                 interest_yearly |-> interest_yearly]
    /\ UNCHANGED <<defaults, land_object, overrides, params, phases,
                   land_costs, construction_costs, revenue, fund_fees,
                   fund_size, cash_flows, kpis, sensitivity, data_health,
                   result, seen>>
    /\ UNCHANGED svc_vars

(***************************************************************************)
(* 8. Fund size and capital structure.                                     *)
(***************************************************************************)
\* variant: the arrangement fee left out of the fund size
total_fund_size_no_arrangement(total_land, total_construction, total_fund_fees, total_interest, arrangement_fee) ==
    RAdd(RAdd(RAdd(total_land, total_construction), total_fund_fees),
         total_interest)

total_fund_size_of(total_land, total_construction, total_fund_fees, total_interest, arrangement_fee) ==
    RAdd(RAdd(RAdd(RAdd(total_land, total_construction), total_fund_fees),
              total_interest), arrangement_fee)

\* variant: the in-kind contribution left inside the cash equity
equity_amount_in_kind_kept(total_fund_size, bank_loan, in_kind_value) ==
    RSub(total_fund_size, bank_loan)

equity_amount_of(total_fund_size, bank_loan, in_kind_value) ==
    RSub(RSub(total_fund_size, bank_loan), in_kind_value)

FundSize ==
    /\ pc = "fund_size"
    /\ LET bank_loan == financing.bank_loan_amount
           in_kind_value == land_costs.in_kind_portion
           total_fund_size ==
               total_fund_size_of(land_costs.total_land_acquisition,
                                  construction_costs.total_construction,
                                  fund_fees.total_fund_fees,
                                  financing.total_interest,
                                  financing.arrangement_fee)
           equity_amount == equity_amount_of(total_fund_size, bank_loan, in_kind_value)
       IN  fund_size' =
               [total_fund_size |-> total_fund_size,
                equity_amount |-> equity_amount,
                in_kind_contribution |-> in_kind_value,
                bank_loan |-> bank_loan,
                equity_pct |-> IF RPos(total_fund_size)
                               THEN RDiv(equity_amount, total_fund_size) ELSE Zero,
                debt_pct |-> IF RPos(total_fund_size)
                             THEN RDiv(bank_loan, total_fund_size) ELSE Zero]
    /\ pc' = "cash_flows"
    /\ UNCHANGED <<defaults, land_object, overrides, params, phases,
                   land_costs, construction_costs, revenue, financing,
                   fund_fees, debt, cash_flows, kpis, sensitivity,
                   data_health, result, seen, exc>>
    /\ UNCHANGED svc_vars


(***************************************************************************)
(* 9. Cash flows (year by year).                                           *)
(***************************************************************************)
\* variant: the surplus written one year early
equity_cf_early(n, total_equity_invested, total_surplus) ==
    LET z == [i \in 1..(n + 1) |-> Zero]
        a == [z EXCEPT ![1] = RNeg(total_equity_invested)]
    IN  [a EXCEPT ![n] = total_surplus]

\* the equity vector handed to the IRR solver: zeros(n + 1), then index 0,
\* then index -1
equity_cf_of(n, total_equity_invested, total_surplus) ==
    LET z == [i \in 1..(n + 1) |-> Zero]
        a == [z EXCEPT ![1] = RNeg(total_equity_invested)]
    IN  [a EXCEPT ![n + 1] = total_surplus]

\* variant: the loan drawn but never repaid
total_surplus_loan_kept(total_equity_invested, bank_loan, gross_revenue, outflows_sum) ==
    RSub(RAdd(RAdd(total_equity_invested, bank_loan), gross_revenue), outflows_sum)

\* surplus: all sources in - all uses out - debt repaid
total_surplus_of(total_equity_invested, bank_loan, gross_revenue, outflows_sum) ==
    RSub(RSub(RAdd(RAdd(total_equity_invested, bank_loan), gross_revenue),
              outflows_sum), bank_loan)

\* variant: the one-time fees booked again in every year
onetime_every_year(n, amount) ==
    [i \in 1..n |-> amount]

\* onetime = np.zeros(n); onetime[0] = amount
onetime_of(n, amount) ==
    [i \in 1..n |-> IF i = 1 THEN amount ELSE Zero]

\* the cash waterfall loop: net_cash[y]
RECURSIVE net_cash_of(_, _, _, _, _)
net_cash_of(y, debt_drawdown, sales_cf, total_outflows, debt_repay_cf) ==
    LET beginning == IF y = 1 THEN Zero
                     ELSE net_cash_of(y - 1, debt_drawdown, sales_cf,
                                      total_outflows, debt_repay_cf)
        cash_in == RAdd(RAdd(beginning, debt_drawdown[y]), sales_cf[y])
        cash_out == RAdd(total_outflows[y], debt_repay_cf[y])
    IN  RSub(cash_in, cash_out)

CashFlows ==
    /\ pc = "cash_flows"
    /\ LET n == phases.n_years
           total_land == land_costs.total_land_acquisition
           in_kind_value == land_costs.in_kind_portion
           bank_loan == financing.bank_loan_amount
           gross_revenue == revenue.gross_revenue
           sales_cf == AScale(gross_revenue, phases.revenue_ph)
           land_cf == AScale(total_land, phases.land_ph)
           direct_cf == AScale(construction_costs.total_direct_cost, phases.direct_ph)
           indirect_cf == AScale(construction_costs.total_indirect_cost, phases.indirect_ph)
           cost_per_yr == APlus(APlus(land_cf, direct_cf), indirect_cf)
           mgmt_cf == AScale(pq("management_fee_pct"), cost_per_yr)
           fixed_flat == ASum(<<pq("custodian_fee_annual"), pq("board_fee_annual"),
                                pq("sharia_board_fee_annual"), pq("auditor_fee_annual"),
                                RMul(pq("valuation_fee_quarterly"), I(4))>>)
           fixed_annual ==
               APlus(APlus(AConst(fixed_flat, n),
                           AScale(pq("other_reserve_pct"), cost_per_yr)),
                     AScale(pq("operator_fee_pct"), cost_per_yr))
           onetime == onetime_of(n, ASum(<<pq("sharia_certificate_fee"),
                                           pq("legal_counsel_fee"),
                                           pq("spv_formation_fee"),
                                           fund_fees.structuring_fee,
                                           financing.arrangement_fee>>))
           fees_cf == APlus(APlus(mgmt_cf, fixed_annual), onetime)
           total_outflows ==
               APlus(APlus(APlus(APlus(APlus(APlus(land_cf, direct_cf), indirect_cf),
                                 financing.interest_yearly), mgmt_cf),
                           fixed_annual), onetime)
           net_cf == AMinus(sales_cf, total_outflows)
           cumulative == ACumsum(net_cf)
           debt_repay_cf == debt_repay_of(n, bank_loan)
           net_cash == [y \in 1..n |->
                          net_cash_of(y, debt.debt_drawdown, sales_cf,
                                      total_outflows, debt_repay_cf)]
           beginning_cash == [y \in 1..n |-> IF y = 1 THEN Zero ELSE net_cash[y - 1]]
           total_equity_invested == RAdd(fund_size.equity_amount, in_kind_value)
           total_surplus == total_surplus_of(total_equity_invested, bank_loan,
                                             gross_revenue, ASum(total_outflows))
           equity_cf_for_irr == equity_cf_of(n, total_equity_invested, total_surplus)
       IN  cash_flows' =
               [years |-> [i \in 1..n |-> i],
                inflows_sales |-> sales_cf,
                outflows_land |-> land_cf,
                outflows_direct |-> direct_cf,
                outflows_indirect |-> indirect_cf,
                outflows_interest |-> financing.interest_yearly,
                outflows_fees |-> fees_cf,
                outflows_total |-> total_outflows,
                net_cash_flow |-> net_cf,
                cumulative |-> cumulative,
                beginning_cash |-> beginning_cash,
                net_cash_waterfall |-> net_cash,
                net_equity_cashflows |-> equity_cf_for_irr,
                equity_cf_for_irr |-> equity_cf_for_irr]
    /\ pc' = "kpis"
    /\ UNCHANGED <<defaults, land_object, overrides, params, phases,
                   land_costs, construction_costs, revenue, financing,
                   fund_fees, debt, fund_size, kpis, sensitivity,
                   data_health, result, seen, exc>>
    /\ UNCHANGED svc_vars

(***************************************************************************)
(* 10. KPIs.                                                               *)
(***************************************************************************)
\* variant: the number of periods taken as the length of the vector
irr_of_periods_off(values) ==
    LET n == Len(values) - 1
        invested == RNeg(values[1])
        terminal == values[n + 1]
        same_sign == \/ RPos(invested) /\ RPos(terminal)
                     \/ RNegative(invested) /\ RNegative(terminal)
    IN  IF n >= 1 /\ same_sign
        THEN [t |-> "rate", growth |-> RDiv(terminal, invested), n |-> n + 1]
        ELSE NaN

\* try: float(npf.irr(values)) except Exception: None
\* npf.irr solves sum(values[t] * x^t) = 0 for x = 1/(1+r) with np.roots and
\* returns NaN when no root is real and positive; it raises only on
\* non-finite input, which finite rationals never are.  The vector has two
\* non-zero coefficients at most, so a real positive root exists exactly when
\* -values[0] / values[n] > 0, and then (1 + r)^n = values[n] / -values[0].
irr_of(values) ==
    LET n == Len(values) - 1
        invested == RNeg(values[1])
        terminal == values[n + 1]
        same_sign == \/ RPos(invested) /\ RPos(terminal)
                     \/ RNegative(invested) /\ RNegative(terminal)
    IN  IF n >= 1 /\ same_sign
        THEN [t |-> "rate", growth |-> RDiv(terminal, invested), n |-> n]
        ELSE NaN

Sum(values) == ASum(values)

\* variant: the guard on the invested total left out
roe_total_unguarded(equity_profit, total_equity_invested) ==
    IF RIsZero(total_equity_invested) THEN Zero
    ELSE RDiv(equity_profit, total_equity_invested)

\* roe_total = equity_profit / total_equity_invested if total_equity_invested > 0 else 0
roe_total_of(equity_profit, total_equity_invested) ==
    IF RPos(total_equity_invested)
    THEN RDiv(equity_profit, total_equity_invested) ELSE Zero

KPIs ==
    /\ pc = "kpis"
    /\ LET n == phases.n_years
           equity_cf_for_irr == cash_flows.equity_cf_for_irr
           equity_profit == Sum(equity_cf_for_irr)
           irr == irr_of(equity_cf_for_irr)
           total_equity_invested == RAdd(fund_size.equity_amount,
                                         land_costs.in_kind_portion)
           gross_revenue == revenue.gross_revenue
           total_fund_size == fund_size.total_fund_size
           roe_total == roe_total_of(equity_profit, total_equity_invested)
           roe_annual == IF n > 0 THEN RDiv(roe_total, I(n)) ELSE Zero
       IN  kpis' =
               [irr |-> irr,
                equity_net_profit |-> equity_profit,
                roe_total |-> roe_total,
                roe_annualized |-> roe_annual,
                profit_margin |-> IF RPos(gross_revenue)
                                  THEN RDiv(equity_profit, gross_revenue) ELSE Zero,
                cost_to_revenue_ratio |-> IF RPos(gross_revenue)
                                          THEN RDiv(total_fund_size, gross_revenue)
                                          ELSE Zero,
                yield_on_cost |-> IF RPos(total_fund_size)
                                  THEN RDiv(gross_revenue, total_fund_size) ELSE Zero]
    /\ pc' = "sensitivity"
    /\ UNCHANGED <<defaults, land_object, overrides, params, phases,
                   land_costs, construction_costs, revenue, financing,
                   fund_fees, debt, fund_size, cash_flows, sensitivity,
                   data_health, result, seen, exc>>
    /\ UNCHANGED svc_vars

(***************************************************************************)
(* 11. Sensitivity analysis (5 x 5: sale price vs construction cost).       *)
(***************************************************************************)
\* np.linspace(start, stop, 5)
linspace5(start, stop) ==
    [i \in 1..5 |-> RAdd(start, RMul(I(i - 1), RDiv(RSub(stop, start), I(4))))]

\* one cell of the sweep: the body of the inner try block
sensitivity_cell(sp, cm) ==
    LET n == phases.n_years
        total_land == land_costs.total_land_acquisition
        in_kind_value == land_costs.in_kind_portion
        bank_loan == financing.bank_loan_amount
        adj_infra == RMul(pq("infrastructure_cost_per_sqm"), cm)
        adj_super == RMul(pq("superstructure_cost_per_sqm"), cm)
        adj_direct == RAdd(RMul(construction_costs.gba_sqm, RAdd(adj_infra, adj_super)),
                           construction_costs.parking_cost)
        adj_indirect == RMul(adj_direct,
                             RAdd(RAdd(pq("developer_fee_pct"), pq("other_indirect_pct")),
                                  pq("contingency_pct")))
        adj_constr == RAdd(adj_direct, adj_indirect)
        adj_revenue == RMul(construction_costs.sellable_area_sqm, sp)
        adj_fund == total_fund_size_of(total_land, adj_constr, fund_fees.total_fund_fees,
                                       financing.total_interest, financing.arrangement_fee)
        adj_equity == RSub(RSub(adj_fund, bank_loan), in_kind_value)
        adj_outflows ==
            APlus(APlus(APlus(APlus(AScale(total_land, phases.land_ph),
                                    AScale(adj_direct, phases.direct_ph)),
                              AScale(adj_indirect, phases.indirect_ph)),
                        financing.interest_yearly),
                  cash_flows.outflows_fees)
        adj_total_invested == RAdd(adj_equity, in_kind_value)
        adj_surplus == RSub(RSub(RAdd(RAdd(adj_total_invested, bank_loan), adj_revenue),
                                 ASum(adj_outflows)), bank_loan)
    IN  irr_of(equity_cf_of(n, adj_total_invested, adj_surplus))

Sensitivity ==
    /\ pc = "sensitivity"
    /\ IF "_skip_sensitivity" \notin DOMAIN overrides
       THEN LET sale_ppmsq == revenue.sale_price_per_sqm
                base_sale == IF RPos(sale_ppmsq) THEN sale_ppmsq ELSE I(10000)
                base_cost == RAdd(pq("infrastructure_cost_per_sqm"),
                                  pq("superstructure_cost_per_sqm"))
                sale_range == linspace5(RMul(base_sale, Q(8, 10)), RMul(base_sale, Q(12, 10)))
                cost_mult == linspace5(Q(8, 10), Q(12, 10))
            IN  sensitivity' =
                    [sale_price_range |-> sale_range,
                     construction_cost_range |-> AScale(base_cost, cost_mult),
                     irr_matrix |-> [i \in 1..5 |-> [j \in 1..5 |->
                                       sensitivity_cell(sale_range[i], cost_mult[j])]]]
       ELSE sensitivity' = None
    /\ pc' = "health"
    /\ UNCHANGED <<defaults, land_object, overrides, params, phases,
                   land_costs, construction_costs, revenue, financing,
                   fund_fees, debt, fund_size, cash_flows, kpis,
                   data_health, result, seen, exc>>
    /\ UNCHANGED svc_vars

(***************************************************************************)
(* 12. Data health.                                                        *)
(***************************************************************************)
\* variant: the phasing keys left out of the tally, as in inputs_used
CountSource_reported(src) ==
    Cardinality({k \in ParamKeySet \ PhasingKeys : params[k].source = src})

\* sum(1 for s in sources.values() if s == src), over every key of params
CountSource(src) == Cardinality({k \in ParamKeySet : params[k].source = src})

\* round(x, 1) for x >= 0: nearest tenth (no tie arises for k/44*100)
Round1(x) == Q((x[1] * 20 + x[2]) \div (2 * x[2]), 10)

DataHealth ==
    /\ pc = "health"
    /\ LET auto_count == CountSource("auto")
           user_count == CountSource("user")
           default_count == CountSource("default")
           missing_count == CountSource("missing")
           total_params == Cardinality(ParamKeySet)
           confidence == IF total_params > 0
                         THEN RMul(Q(auto_count + user_count, total_params), I(100))
                         ELSE Zero
       IN  data_health' =
               [auto |-> auto_count,
                user |-> user_count,
                default |-> default_count,
                missing |-> missing_count,
                total_params |-> total_params,
                confidence_pct |-> Round1(confidence),
                missing_fields |-> SelectSeq(param_keys,
                                      LAMBDA k : params[k].source = "missing")]
    /\ pc' = "assemble"
    /\ UNCHANGED <<defaults, land_object, overrides, params, phases,
                   land_costs, construction_costs, revenue, financing,
                   fund_fees, debt, fund_size, cash_flows, kpis,
                   sensitivity, result, seen, exc>>
    /\ UNCHANGED svc_vars

(***************************************************************************)
(* Assemble the result and return it.                                      *)
(***************************************************************************)
\* json.loads(json.dumps(v, default=_np_serialize)) on one value: arrays
\* become lists, numbers and strings come back as they went, None goes
\* through null, and NaN is written as the token NaN and read back as NaN
RECURSIVE np_serialize(_)
np_serialize(v) ==
    CASE v.t = "none" -> None
      [] v.t = "nan" -> NaN
      [] v.t = "num" -> Num(v.q)
      [] v.t = "str" -> Str(v.s)
      [] v.t = "list" -> Lst(v.v)
      [] v.t = "rate" -> [t |-> "rate", growth |-> v.growth, n |-> v.n]
      [] v.t = "dict" -> Dict([k \in DOMAIN v.f |-> np_serialize(v.f[k])])

Assemble ==
    /\ pc = "assemble"
    /\ result' =
         [inputs_used |-> [k \in ParamKeySet \ PhasingKeys |->
                             [value |-> np_serialize(params[k].value),
                              source |-> params[k].source]],
          land_costs |-> land_costs,
          construction_costs |-> construction_costs,
          revenue |-> revenue,
          financing |-> financing,
          fund_fees |-> fund_fees,
          fund_size |-> fund_size,
          cash_flows |-> cash_flows,
          kpis |-> [kpis EXCEPT !.irr = np_serialize(@)],
          sensitivity |-> IF sensitivity = None THEN None
                          ELSE [sensitivity EXCEPT !.irr_matrix =
                                  [i \in 1..5 |-> [j \in 1..5 |-> np_serialize(@[i][j])]]],
          data_health |-> data_health]
    /\ pc' = "done"
    /\ UNCHANGED <<defaults, land_object, overrides, params, phases,
                   land_costs, construction_costs, revenue, financing,
                   fund_fees, debt, fund_size, cash_flows, kpis,
                   sensitivity, data_health, seen, exc>>
    /\ UNCHANGED svc_vars

\* a statement of sections 2 to 6 raises: the exception propagates out of
\* compute_proforma, which has no handler around them
SectionExc ==
    CASE pc = "land" -> LandCostsExc
      [] pc = "construction" -> ConstructionCostsExc
      [] pc = "revenue" -> RevenueExc
      [] pc = "financing" -> FinancingExc
      [] pc = "fees" -> FundFeesExc
      [] OTHER -> NoExc

RaiseInSection ==
    /\ pc \in {"land", "construction", "revenue", "financing", "fees"}
    /\ SectionExc # NoExc
    /\ pc' = "raised"
    /\ exc' = SectionExc
    /\ UNCHANGED <<defaults, land_object, overrides, params, phases,
                   land_costs, construction_costs, revenue, financing,
                   fund_fees, debt, fund_size, cash_flows, kpis,
                   sensitivity, data_health, result, seen>>
    /\ UNCHANGED svc_vars

\* the call is over (result handed to the caller, or the exception
\* propagated): its frame is gone and the module is ready for the next call
Return ==
    /\ pc \in {"done", "raised"}
    /\ pc' = "idle"
    /\ land_object' = Unset
    /\ overrides' = Unset
    /\ params' = Unset
    /\ phases' = Unset
    /\ land_costs' = Unset
    /\ construction_costs' = Unset
    /\ revenue' = Unset
    /\ financing' = Unset
    /\ fund_fees' = Unset
    /\ debt' = Unset
    /\ fund_size' = Unset
    /\ cash_flows' = Unset
    /\ kpis' = Unset
    /\ sensitivity' = Unset
    /\ data_health' = Unset
    /\ result' = Unset
    /\ seen' = IF <<land_object, overrides>> = Probe
               THEN IF pc = "done" /\ seen.first = Unset
                    THEN [seen EXCEPT !.first = result]
                    ELSE seen
               ELSE [seen EXCEPT !.interleaved = (seen.first # Unset)]
    /\ exc' = NoExc
    /\ UNCHANGED defaults
    /\ UNCHANGED svc_vars

Next ==
    \/ Invoke
    \/ ResolveInputs
    \/ LandCosts
    \/ ConstructionCosts
    \/ Revenue
    \/ Financing
    \/ FundFees
    \/ Interest
    \/ FundSize
    \/ CashFlows
    \/ KPIs
    \/ Sensitivity
    \/ DataHealth
    \/ Assemble
    \/ RaiseInSection
    \/ Return

Spec == Init /\ [][Next]_vars

\* repeated calls on a handful of inputs, one of them the Probe
NextCalls ==
    \/ InvokeCall
    \/ ResolveInputs
    \/ LandCosts
    \/ ConstructionCosts
    \/ Revenue
    \/ Financing
    \/ FundFees
    \/ Interest
    \/ FundSize
    \/ CashFlows
    \/ KPIs
    \/ Sensitivity
    \/ DataHealth
    \/ Assemble
    \/ RaiseInSection
    \/ Return

SpecCalls == Init /\ [][NextCalls]_vars

(***************************************************************************)
(* POST /api/proforma/scenario: run_scenarios.                             *)
(***************************************************************************)
MaxScenarios == 2

KnownParcel == 1234
UnknownParcel == 999

\* what fetch_land_object hands to the endpoint: the (cached) Land Object of
\* a known parcel, or an object without a parcel number
FetchedLand(parcel_id) ==
    IF parcel_id = KnownParcel THEN Probe[1]
    ELSE Dict([k \in {"parcel_number"} |-> None])

ScenarioItems ==
    {[name |-> "base", overrides |-> EmptyMap],
     [name |-> "in_kind", overrides |-> [k \in {"in_kind_pct"} |-> Num(Q(1, 2))]],
     [name |-> "bad_fee",
      overrides |-> [k \in {"custodian_fee_annual"} |-> Str("two")]]}

ScenarioLists ==
    UNION {[1..n -> ScenarioItems] : n \in 0..MaxScenarios}

ScenarioRequests ==
    {[parcel_id |-> pid, base_overrides |-> SmallProfile, scenarios |-> sq] :
        pid \in {KnownParcel, UnknownParcel}, sq \in ScenarioLists}

\* {**base_overrides, **scenario.overrides}
merge(base, over) ==
    [k \in DOMAIN base \cup DOMAIN over |->
        IF k \in DOMAIN over THEN over[k] ELSE base[k]]

\* the engine's frame is gone once its call is over
ClearFrame ==
    /\ pc' = "idle"
    /\ land_object' = Unset
    /\ overrides' = Unset
    /\ params' = Unset
    /\ phases' = Unset
    /\ land_costs' = Unset
    /\ construction_costs' = Unset
    /\ revenue' = Unset
    /\ financing' = Unset
    /\ fund_fees' = Unset
    /\ debt' = Unset
    /\ fund_size' = Unset
    /\ cash_flows' = Unset
    /\ kpis' = Unset
    /\ sensitivity' = Unset
    /\ data_health' = Unset
    /\ result' = Unset
    /\ exc' = NoExc
    /\ UNCHANGED defaults

\* the request arrives: the Land Object is fetched, 404 without a parcel
\* number, else the loop starts with an empty results list
RunScenarios ==
    /\ batch.stage = "none"
    /\ pc = "idle"
    /\ \E req \in ScenarioRequests :
         LET land == FetchedLand(req.parcel_id)
         IN  batch' = IF ~Truthy(DictGet(land, "parcel_number"))
                      THEN [stage |-> "http404", request |-> req]
                      ELSE [stage |-> "loop", request |-> req, land |-> land,
                            base_overrides |-> req.base_overrides,
                            merged |-> Unset, results |-> <<>>]
    /\ UNCHANGED engine_vars
    /\ UNCHANGED <<land_cache, reg_cache, srem_cache, fetch>>

\* variant: the scenario's overrides written into the base overrides
ScenarioCall_update ==
    /\ batch.stage = "loop"
    /\ Len(batch.results) < Len(batch.request.scenarios)
    /\ LET scenario == batch.request.scenarios[Len(batch.results) + 1]
           merged == merge(batch.base_overrides, scenario.overrides)
       IN  /\ Begin(<<batch.land, merged>>)
           /\ batch' = [batch EXCEPT !.stage = "call", !.merged = merged,
                                     !.base_overrides = merged]
    /\ UNCHANGED <<land_cache, reg_cache, srem_cache, fetch>>

\* one turn of the loop: merged = {**base, **scenario}, then the call of
\* compute_proforma(land, merged)
ScenarioCall ==
    /\ batch.stage = "loop"
    /\ Len(batch.results) < Len(batch.request.scenarios)
    /\ LET scenario == batch.request.scenarios[Len(batch.results) + 1]
           merged == merge(batch.base_overrides, scenario.overrides)
       IN  /\ Begin(<<batch.land, merged>>)
           /\ batch' = [batch EXCEPT !.stage = "call", !.merged = merged]
    /\ UNCHANGED <<land_cache, reg_cache, srem_cache, fetch>>

\* results.append({name, overrides: merged, proforma: pf}); the land and
\* merged objects are the ones the engine was handed, as it left them
Collect ==
    /\ batch.stage = "call"
    /\ pc = "done"
    /\ LET scenario == batch.request.scenarios[Len(batch.results) + 1]
       IN  batch' = [batch EXCEPT
                       !.stage = "loop",
                       !.land = land_object,
                       !.merged = Unset,
                       !.results = Append(@, [name |-> scenario.name,
                                              overrides |-> overrides,
                                              proforma |-> result])]
    /\ ClearFrame
    /\ seen' = IF <<land_object, overrides>> = Probe
               THEN seen
               ELSE [seen EXCEPT !.interleaved = (seen.first # Unset)]
    /\ UNCHANGED <<land_cache, reg_cache, srem_cache, fetch>>

\* except Exception: raise HTTPException(500, str(exc))
ScenarioFail ==
    /\ batch.stage = "call"
    /\ pc = "raised"
    /\ batch' = [stage |-> "http500", request |-> batch.request,
                 detail |-> exc.type]
    /\ ClearFrame
    /\ seen' = [seen EXCEPT !.interleaved = (seen.first # Unset)]
    /\ UNCHANGED <<land_cache, reg_cache, srem_cache, fetch>>

\* return {"land_object": land, "scenarios": results}
Respond ==
    /\ batch.stage = "loop"
    /\ Len(batch.results) = Len(batch.request.scenarios)
    /\ batch' = [stage |-> "responded", request |-> batch.request,
                 land |-> batch.land, base_overrides |-> batch.base_overrides,
                 merged |-> Unset, results |-> batch.results,
                 response |-> [land_object |-> batch.land,
                               scenarios |-> batch.results]]
    /\ UNCHANGED engine_vars
    /\ UNCHANGED <<land_cache, reg_cache, srem_cache, fetch>>

EndRequest ==
    /\ batch.stage \in {"responded", "http404", "http500"}
    /\ batch' = NoBatch
    /\ UNCHANGED engine_vars
    /\ UNCHANGED <<land_cache, reg_cache, srem_cache, fetch>>

\* a standalone call of compute_proforma on the Probe, between requests
CallStandalone ==
    /\ batch.stage = "none"
    /\ Begin(Probe)
    /\ UNCHANGED svc_vars

ReturnStandalone ==
    /\ batch.stage = "none"
    /\ Return

NextScenarios ==
    \/ RunScenarios
    \/ ScenarioCall
    \/ Collect
    \/ ScenarioFail
    \/ Respond
    \/ EndRequest
    \/ CallStandalone
    \/ ReturnStandalone
    \/ ResolveInputs
    \/ LandCosts
    \/ ConstructionCosts
    \/ Revenue
    \/ Financing
    \/ FundFees
    \/ Interest
    \/ FundSize
    \/ CashFlows
    \/ KPIs
    \/ Sensitivity
    \/ DataHealth
    \/ Assemble
    \/ RaiseInSection

SpecScenarios == Init /\ [][NextScenarios]_vars

(***************************************************************************)
(* data_fetch_http: fetch_land_object, its two cache layers, clear_caches. *)
(***************************************************************************)
NeighbourParcel == 1235

BuildingUseCode == 3

FetchParcels == {KnownParcel, NeighbourParcel, UnknownParcel}

\* attrs.get("BUILDINGUSECODE") of the parcel query: two parcels of the same
\* building code, and a parcel the query returns no attributes for
BUILDINGUSECODE(parcel_id) ==
    IF parcel_id \in {KnownParcel, NeighbourParcel}
    THEN Num(I(BuildingUseCode)) ELSE None

\* how the GET of the building report ends: a decoded PDF, a status other
\* than 200, a body under 500 bytes, a timeout, or an exception while
\* downloading or parsing
DownloadOutcomes == {"ok", "status", "short", "timeout", "exception"}

RegulationsOf(outcome) ==
    CASE outcome = "ok" ->
           Dict([k \in {"far", "max_floors", "coverage_ratio"} |->
                  CASE k = "far" -> Num(I(MaxFar))
                    [] k = "max_floors" -> Num(I(3))
                    [] k = "coverage_ratio" -> Num(Q(1, 2))])
      [] outcome = "status" -> Dict([k \in {"error"} |-> Str("HTTP 500")])
      [] outcome = "short" -> Dict([k \in {"error"} |-> Str("HTTP 200")])
      [] outcome = "timeout" -> Dict([k \in {"error"} |-> Str("PDF download timeout")])
      [] outcome = "exception" -> Dict([k \in {"error"} |-> Str("cannot open broken document")])

\* the national market snapshot, cached under "srem_daily"
SremMarket == Dict([k \in {"market_index"} |-> Num(I(1))])

\* _build_land_object, for the fields the caches and the engine deal with
build_land_object(parcel_id, regulations, srem_data) ==
    Dict([k \in {"parcel_id", "area_sqm", "regulations", "market"} |->
           CASE k = "parcel_id" -> Num(I(parcel_id))
             [] k = "area_sqm" -> IF IsNone(BUILDINGUSECODE(parcel_id))
                                  THEN None ELSE Num(I(MaxArea))
             [] k = "regulations" ->
                  Dict([j \in {"max_floors", "far", "coverage_ratio",
                               "source", "pdf_error"} |->
                         CASE j = "source" ->
                                IF ~Truthy(DictGet(regulations, "error"))
                                THEN Str("building_pdf") ELSE Str("unavailable")
                           [] j = "pdf_error" -> DictGet(regulations, "error")
                           [] OTHER -> DictGet(regulations, j)])
             [] k = "market" ->
                  Dict([j \in {"srem_market_index"} |->
                         DictGet(srem_data, "market_index")])])

Store(cache, key, value) ==
    [k \in DOMAIN cache \cup {key} |-> IF k = key THEN value ELSE cache[k]]

Evict(cache, key) == [k \in DOMAIN cache \ {key} |-> cache[k]]

\* fetch_land_object(client, parcel_id): the land cache is looked up first;
\* on a miss the parcel is queried and identified
FetchLandObject ==
    /\ fetch.pc = "idle"
    /\ \E parcel_id \in FetchParcels :
         fetch' = IF parcel_id \in DOMAIN land_cache
                  THEN [pc |-> "returned", parcel_id |-> parcel_id,
                        land_hit |-> TRUE, downloaded |-> FALSE,
                        land |-> land_cache[parcel_id]]
                  ELSE [pc |-> "regulations", parcel_id |-> parcel_id,
                        bld_code |-> BUILDINGUSECODE(parcel_id)]
    /\ UNCHANGED <<land_cache, reg_cache, srem_cache, batch>>
    /\ UNCHANGED engine_vars

\* _fetch_building_regulations: a hit of the regulation cache by building
\* code, else the download; only a decoded result is cached, and only under
\* a building code
FetchBuildingRegulations ==
    /\ fetch.pc = "regulations"
    /\ IF ~IsNone(fetch.bld_code) /\ fetch.bld_code.q[1] \in DOMAIN reg_cache
       THEN /\ fetch' = [pc |-> "market", parcel_id |-> fetch.parcel_id,
                         bld_code |-> fetch.bld_code, downloaded |-> FALSE,
                         regulations |-> reg_cache[fetch.bld_code.q[1]]]
            /\ UNCHANGED reg_cache
       ELSE \E outcome \in DownloadOutcomes :
              /\ fetch' = [pc |-> "market", parcel_id |-> fetch.parcel_id,
                           bld_code |-> fetch.bld_code, downloaded |-> TRUE,
                           regulations |-> RegulationsOf(outcome)]
              /\ reg_cache' = IF outcome = "ok" /\ ~IsNone(fetch.bld_code)
                              THEN Store(reg_cache, fetch.bld_code.q[1],
                                         RegulationsOf(outcome))
                              ELSE reg_cache
    /\ UNCHANGED <<land_cache, srem_cache, batch>>
    /\ UNCHANGED engine_vars

\* srem_client.fetch_market: cached under one key (the parcels carry no
\* district name, so fetch_district is not called)
FetchMarket ==
    /\ fetch.pc = "market"
    /\ srem_cache' = IF "srem_daily" \in DOMAIN srem_cache THEN srem_cache
                     ELSE Store(srem_cache, "srem_daily", SremMarket)
    /\ fetch' = [pc |-> "assemble", parcel_id |-> fetch.parcel_id,
                 bld_code |-> fetch.bld_code, downloaded |-> fetch.downloaded,
                 regulations |-> fetch.regulations,
                 srem_data |-> srem_cache'["srem_daily"]]
    /\ UNCHANGED <<land_cache, reg_cache, batch>>
    /\ UNCHANGED engine_vars

\* land_obj = _build_land_object(...); _land_cache[parcel_id] = land_obj
AssembleLandObject ==
    /\ fetch.pc = "assemble"
    /\ LET land_obj == build_land_object(fetch.parcel_id, fetch.regulations,
                                         fetch.srem_data)
       IN  /\ land_cache' = Store(land_cache, fetch.parcel_id, land_obj)
           /\ fetch' = [pc |-> "returned", parcel_id |-> fetch.parcel_id,
                        land_hit |-> FALSE, downloaded |-> fetch.downloaded,
                        land |-> land_obj]
    /\ UNCHANGED <<reg_cache, srem_cache, batch>>
    /\ UNCHANGED engine_vars

\* clear_caches()
ClearCaches ==
    /\ fetch.pc = "idle"
    /\ land_cache' = EmptyMap
    /\ reg_cache' = EmptyMap
    /\ srem_cache' = EmptyMap
    /\ fetch' = [pc |-> "cleared"]
    /\ UNCHANGED batch
    /\ UNCHANGED engine_vars

\* the caller has the Land Object (or clear_caches has returned)
FetchReturn ==
    /\ fetch.pc \in {"returned", "cleared"}
    /\ fetch' = NoFetch
    /\ UNCHANGED <<land_cache, reg_cache, srem_cache, batch>>
    /\ UNCHANGED engine_vars

\* TTLCache: an entry older than its time to live is gone at the next access
Expire ==
    /\ \/ \E k \in DOMAIN land_cache :
            land_cache' = Evict(land_cache, k) /\ UNCHANGED <<reg_cache, srem_cache>>
       \/ \E k \in DOMAIN reg_cache :
            reg_cache' = Evict(reg_cache, k) /\ UNCHANGED <<land_cache, srem_cache>>
       \/ \E k \in DOMAIN srem_cache :
            srem_cache' = Evict(srem_cache, k) /\ UNCHANGED <<land_cache, reg_cache>>
    /\ UNCHANGED <<fetch, batch>>
    /\ UNCHANGED engine_vars

NextFetch ==
    \/ FetchLandObject
    \/ FetchBuildingRegulations
    \/ FetchMarket
    \/ AssembleLandObject
    \/ ClearCaches
    \/ FetchReturn
    \/ Expire

SpecFetch == Init /\ [][NextFetch]_vars


(***************************************************************************)
(* Properties.                                                             *)
(***************************************************************************)
Resolved == pc \notin {"idle", "resolve"}

UserGiven(k) == k \in DOMAIN overrides /\ ~IsNone(overrides[k])

AutoValue(k) ==
    IF k \in DOMAIN auto_map THEN Walk(land_object, auto_map[k]) ELSE None

ResultSections ==
    {"inputs_used", "land_costs", "construction_costs", "revenue", "financing",
     "fund_fees", "fund_size", "cash_flows", "kpis", "sensitivity", "data_health"}

\* C1 as stated: every auto-mapped key that is present in the Override Map
\* resolves to the override with source 'user', whatever the Land Object holds.
C1_AsStated ==
    Resolved =>
        \A k \in DOMAIN auto_map :
            k \in DOMAIN overrides =>
                params[k] = [value |-> overrides[k], source |-> "user"]

\* C1 amended: every auto-mapped key that is present in the Override Map with
\* a non-null value resolves to the override with source 'user', whatever the
\* Land Object holds.
C1_ResolutionPriority ==
    Resolved =>
        \A k \in DOMAIN auto_map :
            UserGiven(k) =>
                params[k] = [value |-> overrides[k], source |-> "user"]

C1_Witness ==
    /\ Resolved
    /\ \E k \in DOMAIN auto_map :
        /\ UserGiven(k)
        /\ ~IsNone(AutoValue(k))
        /\ AutoValue(k) # overrides[k]
        /\ params[k].source = "user"

\* C2: every enumerated key resolves to exactly one (value, source) pair in
\* strict order non-null override -> 'user', else non-null auto-mapped value
\* -> 'auto', else DEFAULTS entry -> 'default', else (null, 'missing'); a
\* null override counts as absent; the value is null iff the source is
\* 'missing'.
C2_ResolutionOrder ==
    Resolved =>
        /\ DOMAIN params = ParamKeySet
        /\ \A k \in ParamKeySet :
            LET r == params[k] IN
            /\ r.source \in {"user", "auto", "default", "missing"}
            /\ UserGiven(k) => r = [value |-> overrides[k], source |-> "user"]
            /\ (~UserGiven(k) /\ ~IsNone(AutoValue(k)))
                  => r = [value |-> AutoValue(k), source |-> "auto"]
            /\ (~UserGiven(k) /\ IsNone(AutoValue(k)) /\ k \in DOMAIN DEFAULTS)
                  => r = [value |-> DEFAULTS[k], source |-> "default"]
            /\ (~UserGiven(k) /\ IsNone(AutoValue(k)) /\ k \notin DOMAIN DEFAULTS)
                  => r = [value |-> None, source |-> "missing"]
            /\ IsNone(r.value) <=> r.source = "missing"

C2_Witness ==
    /\ Resolved
    /\ \A src \in {"user", "auto", "default", "missing"} :
          \E k \in ParamKeySet : params[k].source = src
    /\ \E k \in ParamKeySet :
          k \in DOMAIN overrides /\ IsNone(overrides[k]) /\ params[k].source # "user"

\* C3: in every result, in_kind_pct > 0 gives transfer_tax = 0, and
\* in_kind_pct = 0 gives transfer_tax = real_estate_transfer_tax_pct *
\* land_price_total exactly.
C3_InKindTax ==
    pc = "done" =>
        LET lc == result.land_costs
            ik == OrZero(result.inputs_used["in_kind_pct"].value)
            tax_pct == result.inputs_used["real_estate_transfer_tax_pct"].value.q
        IN  /\ lc.in_kind_pct = ik
            /\ RPos(ik) => lc.transfer_tax = Zero
            /\ RIsZero(ik) => lc.transfer_tax = RMul(tax_pct, lc.land_price_total)

C3_Witness ==
    /\ pc = "done"
    /\ RPos(result.land_costs.in_kind_pct)
    /\ RPos(result.land_costs.land_price_total)
    /\ RPos(result.inputs_used["real_estate_transfer_tax_pct"].value.q)
    /\ result.land_costs.transfer_tax = Zero

\* C4: in every result total_fund_size = total_land_acquisition +
\* total_construction + total_fund_fees + total_interest + arrangement_fee,
\* equity_amount = total_fund_size - bank_loan - in_kind_contribution, and so
\* equity_amount + bank_loan + in_kind_contribution = total_fund_size.
C4_FundSizeIdentity ==
    pc = "done" =>
        LET fs == result.fund_size IN
        /\ fs.total_fund_size =
              RAdd(result.land_costs.total_land_acquisition,
              RAdd(result.construction_costs.total_construction,
              RAdd(result.fund_fees.total_fund_fees,
              RAdd(result.financing.total_interest,
                   result.financing.arrangement_fee))))
        /\ fs.equity_amount =
              RSub(fs.total_fund_size, RAdd(fs.bank_loan, fs.in_kind_contribution))
        /\ RAdd(fs.equity_amount, RAdd(fs.bank_loan, fs.in_kind_contribution))
              = fs.total_fund_size
        /\ fs.bank_loan = result.financing.bank_loan_amount
        /\ fs.in_kind_contribution = result.land_costs.in_kind_portion

C4_Witness ==
    /\ pc = "done"
    /\ RPos(result.fund_size.bank_loan)
    /\ RPos(result.fund_size.in_kind_contribution)
    /\ RPos(result.financing.total_interest)
    /\ RPos(result.financing.arrangement_fee)
    /\ RPos(result.fund_fees.total_fund_fees)

EquityShape(res) ==
    LET cf == res.cash_flows.equity_cf_for_irr
        n == Trunc(res.inputs_used["fund_period_years"].value.q)
        invested == RAdd(res.fund_size.equity_amount,
                         res.fund_size.in_kind_contribution)
    IN  /\ Len(cf) = n + 1
        /\ \A i \in 2..n : cf[i] = Zero
        /\ cf[1] = RNeg(invested)
        /\ cf[n + 1] = RSub(RAdd(invested, res.revenue.gross_revenue),
                            ASum(res.cash_flows.outflows_total))

\* C5 as stated: for every input the equity vector has length
\* fund_period_years + 1, interior entries exactly 0, index 0 equal to
\* -(equity_amount + in_kind_value) and negative, index n the terminal surplus.
C5_AsStated ==
    pc = "done" =>
        /\ EquityShape(result)
        /\ RNegative(result.cash_flows.equity_cf_for_irr[1])

\* C5 amended: in every result the equity vector has length
\* fund_period_years + 1, interior entries exactly 0, index 0 equal to
\* -(equity_amount + in_kind_value), which is negative exactly when that
\* total is positive, and index n the terminal surplus.
C5_EquityShape ==
    pc = "done" =>
        /\ EquityShape(result)
        /\ RNegative(result.cash_flows.equity_cf_for_irr[1])
              <=> RPos(RAdd(result.fund_size.equity_amount,
                            result.fund_size.in_kind_contribution))

C5_Witness ==
    /\ pc = "done"
    /\ Len(result.cash_flows.equity_cf_for_irr) >= 3
    /\ ~RNegative(result.cash_flows.equity_cf_for_irr[1])
    /\ ~RIsZero(result.cash_flows.equity_cf_for_irr[1])
    /\ ~RIsZero(result.cash_flows.equity_cf_for_irr[
                    Len(result.cash_flows.equity_cf_for_irr)])

PhaseOf(key) ==
    CASE key = "land_phasing" -> phases.land_ph
      [] key = "direct_cost_phasing" -> phases.direct_ph
      [] key = "indirect_cost_phasing" -> phases.indirect_ph
      [] key = "revenue_phasing" -> phases.revenue_ph

\* C6: for any non-zero phasing vector and any fund period of at least one
\* year, the padded / truncated and normalised vector has length
\* fund_period_years and its weights sum to 1.
C6_PhasingSumsToOne ==
    (Resolved /\ phases.n_years >= 1) =>
        \A key \in PhasingKeys :
            (\E i \in 1..Len(p(key).v) : ~RIsZero(p(key).v[i])) =>
                /\ Len(PhaseOf(key)) = phases.n_years
                /\ ASum(PhaseOf(key)) = One

\* C7: whenever the sweep runs, irr_matrix has 5 rows of 5 cells and a cell
\* whose IRR cannot be determined holds null.
C7_SweepComplete ==
    (pc = "done" /\ "_skip_sensitivity" \notin DOMAIN overrides) =>
        LET m == result.sensitivity.irr_matrix IN
        /\ Len(m) = 5
        /\ \A i \in 1..5 :
            /\ Len(m[i]) = 5
            /\ \A j \in 1..5 : m[i][j].t \in {"rate", "none"}

\* the equity vector has no real IRR root: its two ends are not of strictly
\* opposite sign
NoRealRoot(cf) ==
    ~ \/ RNegative(cf[1]) /\ RPos(cf[Len(cf)])
      \/ RPos(cf[1]) /\ RNegative(cf[Len(cf)])

\* C8: when the equity cash-flow vector has no real IRR root, the result
\* carries kpis.irr = null.
C8_IrrNull ==
    (pc = "done" /\ NoRealRoot(result.cash_flows.equity_cf_for_irr)) =>
        result.kpis.irr = None

Unresolvable(k) ==
    ~UserGiven(k) /\ IsNone(AutoValue(k)) /\ k \notin DOMAIN DEFAULTS

\* the kind of value each parameter key expects
ExpectedKind(k) ==
    CASE k \in PhasingKeys \cup {"allowed_uses"} -> "list"
      [] k \in {"building_code", "district"} -> "str"
      [] OTHER -> "num"

\* the override entries whose (non-null) value is of the wrong kind
MalformedKeys ==
    {k \in DOMAIN overrides \cap ParamKeySet :
        ~IsNone(overrides[k]) /\ overrides[k].t # ExpectedKind(k)}

NoRegulations ==
    /\ pc # "idle"
    /\ MalformedKeys = {}
    /\ "regulations" \notin DOMAIN land_object.f
    /\ "far" \notin DOMAIN overrides
    /\ "max_floors" \notin DOMAIN overrides

C13_MalformedRejected ==
    (pc # "idle" /\ MalformedKeys # {}) =>
        /\ land_costs = Unset
        /\ pc # "done"
        /\ pc = "raised" =>
              /\ exc.type = "InvalidParameterKind"
              /\ "key" \in DOMAIN exc
              /\ exc.key \in MalformedKeys

DiffersOnlyIn(keys) ==
    /\ pc # "idle"
    /\ land_object = Probe[1]
    /\ overrides # Probe[2]
    /\ DOMAIN overrides \ keys = DOMAIN Probe[2] \ keys
    /\ \A k \in DOMAIN overrides \ keys : overrides[k] = Probe[2][k]

ResolvedNum(res, k) == OrZero(res.inputs_used[k].value)

\* C14: in every result brokerage_fee = brokerage_fee_pct * land_price_total
\* and brokerage_vat = brokerage_vat_pct * brokerage_fee, whatever in_kind_pct
\* is; a computation that differs from an earlier one only in in_kind_pct
\* reports the same land_price_total, brokerage_fee and brokerage_vat.
C14_BrokerageOnWholeDeal ==
    pc = "done" =>
        LET lc == result.land_costs IN
        /\ lc.land_price_total = RMul(ResolvedNum(result, "land_area_sqm"),
                                      ResolvedNum(result, "land_price_per_sqm"))
        /\ lc.brokerage_fee = RMul(result.inputs_used["brokerage_fee_pct"].value.q,
                                   lc.land_price_total)
        /\ lc.brokerage_vat = RMul(result.inputs_used["brokerage_vat_pct"].value.q,
                                   lc.brokerage_fee)
        /\ (DiffersOnlyIn({"in_kind_pct"}) /\ seen.first # Unset) =>
              /\ lc.land_price_total = seen.first.land_costs.land_price_total
              /\ lc.brokerage_fee = seen.first.land_costs.brokerage_fee
              /\ lc.brokerage_vat = seen.first.land_costs.brokerage_vat

C14_Witness ==
    /\ pc = "done"
    /\ DiffersOnlyIn({"in_kind_pct"})
    /\ seen.first # Unset
    /\ RPos(result.land_costs.in_kind_pct)
    /\ result.land_costs.in_kind_pct # seen.first.land_costs.in_kind_pct
    /\ RPos(result.land_costs.brokerage_vat)

\* C15: in every result total_land_acquisition = land_price_total +
\* brokerage_fee + transfer_tax + brokerage_vat, in_kind_portion =
\* land_price_total * in_kind_pct and cash_portion = total_land_acquisition -
\* in_kind_portion, so cash_portion + in_kind_portion = total_land_acquisition.
C15_LandCostBreakdown ==
    pc = "done" =>
        LET lc == result.land_costs IN
        /\ lc.total_land_acquisition =
              RAdd(lc.land_price_total,
              RAdd(lc.brokerage_fee, RAdd(lc.transfer_tax, lc.brokerage_vat)))
        /\ lc.in_kind_pct = ResolvedNum(result, "in_kind_pct")
        /\ lc.in_kind_portion = RMul(lc.land_price_total, lc.in_kind_pct)
        /\ lc.cash_portion = RSub(lc.total_land_acquisition, lc.in_kind_portion)
        /\ RAdd(lc.cash_portion, lc.in_kind_portion) = lc.total_land_acquisition

C15_Witness ==
    /\ pc = "done"
    /\ RPos(result.land_costs.in_kind_portion)
    /\ RPos(result.land_costs.brokerage_fee)
    /\ RPos(result.land_costs.cash_portion)

LoanIndependentKeys ==
    {"infrastructure_cost_per_sqm", "superstructure_cost_per_sqm", "far",
     "parking_area_sqm", "parking_cost_per_sqm", "management_fee_pct",
     "fund_period_years", "in_kind_pct"}

\* C16: in every result bank_loan = bank_ltv_pct * land_price_total and
\* arrangement_fee = arrangement_fee_pct * bank_loan; a computation that
\* differs from an earlier one only in construction unit costs, FAR, parking,
\* a fee parameter, the fund period or the in-kind share reports the same
\* bank_loan and arrangement_fee.
C16_LoanSizing ==
    pc = "done" =>
        /\ result.financing.bank_loan_amount =
              RMul(result.inputs_used["bank_ltv_pct"].value.q,
                   RMul(ResolvedNum(result, "land_area_sqm"),
                        ResolvedNum(result, "land_price_per_sqm")))
        /\ result.fund_size.bank_loan = result.financing.bank_loan_amount
        /\ result.financing.arrangement_fee =
              RMul(result.inputs_used["arrangement_fee_pct"].value.q,
                   result.financing.bank_loan_amount)
        /\ (DiffersOnlyIn(LoanIndependentKeys) /\ seen.first # Unset) =>
              /\ result.financing.bank_loan_amount
                    = seen.first.financing.bank_loan_amount
              /\ result.financing.arrangement_fee
                    = seen.first.financing.arrangement_fee

C16_Witness ==
    /\ pc = "done"
    /\ DiffersOnlyIn(LoanIndependentKeys)
    /\ seen.first # Unset
    /\ result.fund_size.total_fund_size # seen.first.fund_size.total_fund_size
    /\ RPos(result.financing.arrangement_fee)
    /\ RPos(result.land_costs.brokerage_fee)

\* C17: in every result gba_sqm = land_area * far for every resolved far
\* value, the factor 1.0 being used only when far is unresolved;
\* sellable_area_sqm = gba * efficiency_ratio; parking cost = parking_area *
\* parking_cost_per_sqm.
C17_GrossBuildableArea ==
    pc = "done" =>
        LET cc == result.construction_costs
            far == result.inputs_used["far"]
            factor == IF far.source = "missing" THEN One ELSE far.value.q
        IN  /\ cc.gba_sqm = RMul(ResolvedNum(result, "land_area_sqm"), factor)
            /\ cc.sellable_area_sqm =
                  RMul(cc.gba_sqm, result.inputs_used["efficiency_ratio"].value.q)
            /\ cc.parking_cost =
                  RMul(ResolvedNum(result, "parking_area_sqm"),
                       result.inputs_used["parking_cost_per_sqm"].value.q)

\* C18: the last entry of equity_cf_for_irr equals (equity_amount +
\* in_kind_value) + bank_loan + gross_revenue - sum(outflows_total) -
\* bank_loan, which is (equity_amount + in_kind_value) + gross_revenue -
\* sum(outflows_total); kpis.equity_net_profit is the sum of the equity vector
\* and equals gross_revenue - sum(outflows_total).
C18_TerminalSurplus ==
    pc = "done" =>
        LET cf == result.cash_flows.equity_cf_for_irr
            invested == RAdd(result.fund_size.equity_amount,
                             result.fund_size.in_kind_contribution)
            loan == result.fund_size.bank_loan
            rev == result.revenue.gross_revenue
            out == ASum(result.cash_flows.outflows_total)
        IN  /\ cf[Len(cf)] = RSub(RSub(RAdd(RAdd(invested, loan), rev), out), loan)
            /\ cf[Len(cf)] = RSub(RAdd(invested, rev), out)
            /\ result.kpis.equity_net_profit = ASum(cf)
            /\ result.kpis.equity_net_profit = RSub(rev, out)

C18_Witness ==
    /\ pc = "done"
    /\ RPos(result.fund_size.bank_loan)
    /\ RPos(result.revenue.gross_revenue)
    /\ RPos(result.fund_size.in_kind_contribution)
    /\ Len(result.cash_flows.equity_cf_for_irr) >= 3
    /\ ~RIsZero(result.kpis.equity_net_profit)

Invested(res) == RAdd(res.fund_size.equity_amount, res.fund_size.in_kind_contribution)

Periods(res) == Trunc(res.inputs_used["fund_period_years"].value.q)

\* C19 as stated: for every input roe_total = equity_net_profit /
\* (equity_amount + in_kind_value), roe_annualized = roe_total /
\* fund_period_years and yield_on_cost = gross_revenue / total_fund_size.
C19_AsStated ==
    pc = "done" =>
        /\ ~RIsZero(Invested(result)) =>
              result.kpis.roe_total =
                  RDiv(result.kpis.equity_net_profit, Invested(result))
        /\ result.kpis.roe_annualized =
              RDiv(result.kpis.roe_total, I(Periods(result)))
        /\ ~RIsZero(result.fund_size.total_fund_size) =>
              result.kpis.yield_on_cost =
                  RDiv(result.revenue.gross_revenue, result.fund_size.total_fund_size)

\* C19 amended: roe_total = equity_net_profit / (equity_amount +
\* in_kind_value) when that total is positive and 0 otherwise; roe_annualized
\* = roe_total / fund_period_years (linear); yield_on_cost = gross_revenue /
\* total_fund_size when the fund size is positive and 0 otherwise.
C19_ReturnOnEquity ==
    pc = "done" =>
        /\ result.kpis.roe_total =
              IF RPos(Invested(result))
              THEN RDiv(result.kpis.equity_net_profit, Invested(result))
              ELSE Zero
        /\ result.kpis.roe_annualized =
              RDiv(result.kpis.roe_total, I(Periods(result)))
        /\ result.kpis.yield_on_cost =
              IF RPos(result.fund_size.total_fund_size)
              THEN RDiv(result.revenue.gross_revenue, result.fund_size.total_fund_size)
              ELSE Zero

C19_Witness ==
    /\ pc = "done"
    /\ RNegative(Invested(result))
    /\ ~RIsZero(result.kpis.equity_net_profit)
    /\ result.kpis.roe_total = Zero
    /\ Periods(result) >= 2
    /\ RPos(result.kpis.yield_on_cost)

SourceCount(res, keys, src) ==
    Cardinality({k \in keys : res.inputs_used[k].source = src})

MissingKeys == {k \in ParamKeySet : params[k].source = "missing"}

\* C20 as stated: data_health counts the resolved parameters by source with
\* the four phasing keys excluded; auto + user + default + missing =
\* total_params; confidence_pct = (user + auto) / total_params * 100;
\* missing_fields is exactly the keys whose source is 'missing'.
C20_AsStated ==
    pc = "done" =>
        LET dh == result.data_health
            reported == ParamKeySet \ PhasingKeys
        IN  /\ dh.auto = SourceCount(result, reported, "auto")
            /\ dh.user = SourceCount(result, reported, "user")
            /\ dh.default = SourceCount(result, reported, "default")
            /\ dh.missing = SourceCount(result, reported, "missing")
            /\ dh.auto + dh.user + dh.default + dh.missing = dh.total_params
            /\ dh.confidence_pct =
                  RMul(Q(dh.user + dh.auto, dh.total_params), I(100))
            /\ {dh.missing_fields[i] : i \in 1..Len(dh.missing_fields)} = MissingKeys

\* C20 amended: data_health counts all 44 resolved parameters by source, the
\* four phasing keys included (they are left out of inputs_used only); auto +
\* user + default + missing = total_params = 44; confidence_pct is (user +
\* auto) / total_params * 100 rounded to one decimal; missing_fields is
\* exactly the keys whose source is 'missing', each once.
C20_DataHealth ==
    pc = "done" =>
        LET dh == result.data_health
            count(src) == Cardinality({k \in ParamKeySet : params[k].source = src})
            exact == RMul(Q(dh.user + dh.auto, dh.total_params), I(100))
            tenths == RMul(dh.confidence_pct, I(10))
        IN  /\ dh.auto = count("auto")
            /\ dh.user = count("user")
            /\ dh.default = count("default")
            /\ dh.missing = count("missing")
            /\ dh.total_params = 44
            /\ dh.auto + dh.user + dh.default + dh.missing = dh.total_params
            /\ tenths[2] = 1
            /\ ~RPos(RSub(RMul(RSub(dh.confidence_pct, exact), I(20)), One))
            /\ ~RPos(RSub(RMul(RSub(exact, dh.confidence_pct), I(20)), One))
            /\ {dh.missing_fields[i] : i \in 1..Len(dh.missing_fields)} = MissingKeys
            /\ Len(dh.missing_fields) = Cardinality(MissingKeys)

C20_Witness ==
    /\ pc = "done"
    /\ result.data_health.auto > 0
    /\ result.data_health.user > 0
    /\ result.data_health.missing > 0
    /\ \E k \in PhasingKeys : params[k].source = "default"
    /\ \E k \in PhasingKeys : params[k].source = "user"
    /\ result.data_health.confidence_pct
          # RMul(Q(result.data_health.user + result.data_health.auto, 44), I(100))

\* |x - ref| <= 5% of ref, for a positive reference value
Within5Pct(x, ref) ==
    LET diff == RSub(x, ref)
        dist == IF RNegative(diff) THEN RNeg(diff) ELSE diff
    IN  ~RPos(RSub(RMul(dist, I(20)), ref))

RECURSIVE RPow(_, _)
RPow(x, n) == IF n = 0 THEN One ELSE RMul(x, RPow(x, n - 1))

\* the rate r with (1 + r)^periods = growth lies within 5% of ref
RateWithin5Pct(irr, periods, ref) ==
    /\ irr.t = "rate"
    /\ irr.n = periods
    /\ ~RPos(RSub(RPow(RAdd(One, RMul(Q(95, 100), ref)), irr.n), irr.growth))
    /\ ~RPos(RSub(irr.growth, RPow(RAdd(One, RMul(Q(105, 100), ref)), irr.n)))

\* C11: for the Al-Hada reference deal compute_proforma yields
\* total_fund_size within 5% of 541,637,996, equity_amount within 5% of
\* 378,304,663, equity_net_profit within 5% of 114,612,004, roe_total within
\* 5% of 0.303 and irr within 5% of 0.0922.
C11_AlHadaReference ==
    (pc = "done" /\ <<land_object, overrides>> = AlHada) =>
        /\ Within5Pct(result.fund_size.total_fund_size, InMillions(541637996))
        /\ Within5Pct(result.fund_size.equity_amount, InMillions(378304663))
        /\ Within5Pct(result.kpis.equity_net_profit, InMillions(114612004))
        /\ Within5Pct(result.kpis.roe_total, Q(303, 1000))
        /\ RateWithin5Pct(result.kpis.irr, 3, Q(922, 10000))

C11_Witness ==
    /\ pc = "done"
    /\ <<land_object, overrides>> = AlHada
    /\ result.inputs_used["far"] = [value |-> Num(Q(3, 2)), source |-> "auto"]
    /\ result.revenue.gross_revenue = InMillions(656250000)

\* C12: for the Al-Malqa in-kind reference deal compute_proforma yields
\* total_fund_size within 5% of 79,304,975, in_kind_contribution within 5% of
\* 33,779,200, equity_amount within 5% of 13,355,108, bank_loan within 5% of
\* 32,170,667 and irr within 5% of 0.0917.
C12_AlMalqaReference ==
    (pc = "done" /\ <<land_object, overrides>> = AlMalqa) =>
        /\ Within5Pct(result.fund_size.total_fund_size, InMillions(79304975))
        /\ Within5Pct(result.fund_size.in_kind_contribution, InMillions(33779200))
        /\ Within5Pct(result.fund_size.equity_amount, InMillions(13355108))
        /\ Within5Pct(result.fund_size.bank_loan, InMillions(32170667))
        /\ RateWithin5Pct(result.kpis.irr, 3, Q(917, 10000))

C12_Witness ==
    /\ pc = "done"
    /\ <<land_object, overrides>> = AlMalqa
    /\ result.land_costs.in_kind_pct = Q(7, 10)
    /\ result.land_costs.transfer_tax = Zero
    /\ result.revenue.gross_revenue = InMillions(93496000)

\* the cash need of year y: land cash outflow plus construction outflow
CashNeed(y) ==
    RAdd(RAdd(RMul(RSub(land_costs.total_land_acquisition,
                        land_costs.in_kind_portion), phases.land_ph[y]),
              RMul(construction_costs.total_direct_cost, phases.direct_ph[y])),
         RMul(construction_costs.total_indirect_cost, phases.indirect_ph[y]))

TotalCashNeed == ASum([y \in 1..phases.n_years |-> CashNeed(y)])

RecurringFees(y) ==
    RAdd(RMul(RAdd(RAdd(pq("management_fee_pct"), pq("other_reserve_pct")),
                   pq("operator_fee_pct")),
              RAdd(RAdd(cash_flows.outflows_land[y], cash_flows.outflows_direct[y]),
                   cash_flows.outflows_indirect[y])),
         RAdd(RAdd(RAdd(RAdd(pq("custodian_fee_annual"), pq("board_fee_annual")),
                        pq("sharia_board_fee_annual")),
                   pq("auditor_fee_annual")),
              RMul(I(4), pq("valuation_fee_quarterly"))))

OneTimeFees ==
    RAdd(RAdd(RAdd(RAdd(pq("sharia_certificate_fee"), pq("legal_counsel_fee")),
                   pq("spv_formation_fee")),
              fund_fees.structuring_fee),
         financing.arrangement_fee)

\* C23: outflows_fees of year 1 is the recurring part plus the one-time fees
\* (sharia certificate, legal counsel, SPV formation, structuring,
\* arrangement); outflows_fees of every year y >= 2 is the recurring part
\* only.
C23_OneTimeFeesInYearOne ==
    (cash_flows # Unset) =>
        /\ cash_flows.outflows_fees[1] = RAdd(RecurringFees(1), OneTimeFees)
        /\ \A y \in 2..phases.n_years :
             cash_flows.outflows_fees[y] = RecurringFees(y)

C23_Witness ==
    /\ pc = "done"
    /\ phases.n_years = 3
    /\ RPos(OneTimeFees)
    /\ RPos(fund_fees.structuring_fee)
    /\ RPos(financing.arrangement_fee)
    /\ RPos(RecurringFees(2))
    /\ result.cash_flows.outflows_fees[3] = RecurringFees(3)
    /\ RPos(RSub(result.cash_flows.outflows_fees[1], RecurringFees(1)))

DefaultPhasing ==
    \A k \in PhasingKeys : params[k] = [value |-> DEFAULTS[k], source |-> "default"]

\* C24: with the default phasing vectors and any fund period of at least one
\* year, net_cash_flow[y] = inflows_sales[y] - outflows_total[y], cumulative
\* is its running sum, outflows_total sums to total_fund_size (outflows_fees
\* to total_fund_fees + arrangement_fee), inflows_sales sums to gross_revenue
\* and the final cumulative equals kpis.equity_net_profit =
\* gross_revenue - total_fund_size.
C24_CashFlowsReconcile ==
    (pc = "done" /\ DefaultPhasing) =>
        LET n == phases.n_years
            cf == result.cash_flows
        IN  /\ \A y \in 1..n :
                 /\ cf.net_cash_flow[y] = RSub(cf.inflows_sales[y], cf.outflows_total[y])
                 /\ cf.cumulative[y] = ASum([i \in 1..y |-> cf.net_cash_flow[i]])
            /\ ASum(cf.outflows_total) = result.fund_size.total_fund_size
            /\ ASum(cf.outflows_fees) = RAdd(result.fund_fees.total_fund_fees,
                                             result.financing.arrangement_fee)
            /\ ASum(cf.inflows_sales) = result.revenue.gross_revenue
            /\ cf.cumulative[n] = result.kpis.equity_net_profit
            /\ result.kpis.equity_net_profit =
                 RSub(result.revenue.gross_revenue, result.fund_size.total_fund_size)

\* structuring_fee_pct * (total_land_acquisition + total_construction
\*   + bank_loan * interest_rate_pct * fund_period_years + arrangement_fee
\*   - bank_loan - in_kind_value)
SinglePassStructuringFee ==
    RMul(pq("structuring_fee_pct"),
         RSub(RSub(RAdd(RAdd(RAdd(land_costs.total_land_acquisition,
                                  construction_costs.total_construction),
                             RMul(RMul(financing.bank_loan_amount,
                                       pq("interest_rate_pct")),
                                  I(phases.n_years))),
                        financing.arrangement_fee),
                   financing.bank_loan_amount),
              land_costs.in_kind_portion))

\* C25: structuring_fee is the single-pass estimate; it keeps that value
\* once the fund size and the final equity_amount are known, in the one-time
\* fees of year 1 and in the returned result.
C25_StructuringFeeSinglePass ==
    /\ (fund_fees # Unset) => fund_fees.structuring_fee = SinglePassStructuringFee
    /\ (pc = "done") =>
         /\ result.fund_fees.structuring_fee = SinglePassStructuringFee
         /\ result.fund_fees.total_fund_fees =
              ASum(<<result.fund_fees.management_fee, result.fund_fees.custodian_fee,
                     result.fund_fees.board_fee, result.fund_fees.sharia_fees,
                     result.fund_fees.legal_counsel, result.fund_fees.auditor_fee,
                     result.fund_fees.valuation_fee, result.fund_fees.other_reserve,
                     result.fund_fees.spv_fee, SinglePassStructuringFee,
                     result.fund_fees.operator_fee>>)

C25_Witness ==
    /\ pc = "done"
    /\ phases.n_years = 3
    /\ RPos(result.fund_fees.structuring_fee)
    /\ RPos(result.financing.bank_loan_amount)
    /\ result.fund_fees.structuring_fee = SinglePassStructuringFee
    /\ result.fund_fees.structuring_fee #
         RMul(pq("structuring_fee_pct"), result.fund_size.equity_amount)

SweepMultipliers == <<Q(8, 10), Q(9, 10), I(1), Q(11, 10), Q(12, 10)>>

\* C26: sale_price_range is the resolved sale price times (0.8, 0.9, 1.0,
\* 1.1, 1.2), construction_cost_range is the infrastructure + superstructure
\* unit cost times the same multipliers, and the centre cell of irr_matrix
\* equals kpis.irr, for every input whose sweep is computed.
C26_SweepCentredOnBase ==
    (pc = "done" /\ "_skip_sensitivity" \notin DOMAIN overrides) =>
        /\ result.sensitivity # None
        /\ result.sensitivity.sale_price_range =
             AScale(ResolvedNum(result, "sale_price_per_sqm"), SweepMultipliers)
        /\ result.sensitivity.construction_cost_range =
             AScale(RAdd(ResolvedNum(result, "infrastructure_cost_per_sqm"),
                         ResolvedNum(result, "superstructure_cost_per_sqm")),
                    SweepMultipliers)
        /\ result.sensitivity.irr_matrix[3][3] = result.kpis.irr

\* the mapping path of an auto-mapped key meets an absent, null or non-record
\* field of the Land Object
Absent(obj, part) == part \notin DOMAIN obj.f \/ IsNone(obj.f[part])

PathBroken(k) ==
    LET path == auto_map[k]
    IN  \/ Absent(land_object, path[1])
        \/ /\ Len(path) = 2
           /\ \/ land_object.f[path[1]].t # "dict"
              \/ Absent(land_object.f[path[1]], path[2])

\* C27: when a field on the mapping path is absent, null or not a record,
\* an auto-mapped key without an override resolves to its DEFAULTS entry or
\* to (null, 'missing'), and no exception comes out of _resolve.
C27_AutoTraversalNeverFails ==
    /\ (params # Unset) =>
         \A k \in DOMAIN auto_map :
            (~UserGiven(k) /\ PathBroken(k)) =>
                params[k] = IF k \in DOMAIN DEFAULTS
                            THEN [value |-> DEFAULTS[k], source |-> "default"]
                            ELSE [value |-> None, source |-> "missing"]
    /\ (pc = "raised") => (params # Unset /\ exc.line > 123)

C27_Witness ==
    /\ pc = "done"
    /\ "regulations" \in DOMAIN land_object.f
    /\ land_object.f["regulations"] = Str("n/a")
    /\ ~UserGiven("far")
    /\ result.inputs_used["far"] = [value |-> None, source |-> "missing"]
    /\ result.inputs_used["land_area_sqm"].source = "auto"

\* C28: an Override Map whose values are numbers and number lists of the
\* right kind - a fund period of 0 or 1, a fund period shorter or longer than
\* the phasing vectors, zero land area, zero sale price included - never makes
\* compute_proforma raise, and the result it returns has every section.
C28_DegenerateInputsDegrade ==
    (pc # "idle" /\ MalformedKeys = {}) =>
        /\ pc # "raised"
        /\ pc = "done" =>
             /\ DOMAIN result = ResultSections
             /\ \A sec \in ResultSections \ {"sensitivity"} : result[sec] # Unset

PdfError(land) == DictGet(DictGet(land, "regulations"), "pdf_error")

\* C30: the result of a failed regulations download is stored in no cache
\* layer, so a Land Object served from the cache never carries a download
\* error and the next fetch of the parcel downloads again; clear_caches
\* empties the land, regulation and SREM caches.
C30_FailedDownloadNotCached ==
    /\ \A code \in DOMAIN reg_cache : "error" \notin DOMAIN reg_cache[code].f
    /\ \A parcel_id \in DOMAIN land_cache : IsNone(PdfError(land_cache[parcel_id]))
    /\ (fetch.pc = "returned" /\ fetch.land_hit) => IsNone(PdfError(fetch.land))
    /\ (fetch.pc = "cleared") =>
         (land_cache = EmptyMap /\ reg_cache = EmptyMap /\ srem_cache = EmptyMap)

====
